---- MODULE Spec2Model ----
(***************************************************************************)
(* A model of the analysis-pass engine of code_review_agent: the finding   *)
(* data model, the four passes' analyze operations (file read, parse,      *)
(* tree traversal with per-traversal checker state) and run_analysis.      *)
(*                                                                         *)
(* A source file is modelled by what the passes read of it: whether and    *)
(* how read_text fails, its lines (length and trailing whitespace of       *)
(* each), whether ast.parse accepts it, and the module body as a sequence  *)
(* of statements.  The i-th statement of a body sits on line i, column 0.  *)
(***************************************************************************)
EXTENDS Integers, Sequences, FiniteSets

VARIABLES
    fs,         \* the file system: path -> file
    checker,    \* fields of the most recently constructed checker objects
    prev,       \* the analyze call before the last one
    last,       \* the last analyze call and its outcome
    run,        \* the last run_analysis call and its outcome
    heap,       \* the list objects of the process: list id -> findings
    colls,      \* the FindingCollection objects: collection -> id of its _findings
    ret,        \* the last call on a collection and what it returned
    rate_limiter,   \* the RateLimiter object of the scanner: its fields
    time,       \* what time.time() returns, in seconds
    attempt     \* the last call on the rate limiter and its outcome

vars == <<fs, checker, prev, last, run, heap, colls, ret, rate_limiter, time, attempt>>

-----------------------------------------------------------------------------
(* Bounds of the model *)

\* statements in a module body of the engine specifications
MaxStmts == 2
\* lines in a source text
MaxLines == 1
\* statements in a module body of the security-pass specification
MaxSecStmts == 3
\* the largest line / column a parse failure reports
MaxErrPos == 2

-----------------------------------------------------------------------------
(* Python values *)

\* Python's None, where a string is expected
None == "None"

\* an optional integer: <<>> is None, <<n>> is n
NoInt == <<>>

\* `x or default` on an optional integer: None and 0 are falsy
PyOr(x, default) == IF x = NoInt \/ x[1] = 0 THEN default ELSE x[1]

\* expression nodes
Name(id) == [node |-> "Name", id |-> id]
Attribute(value, attr) == [node |-> "Attribute", value |-> value, attr |-> attr]
Constant(type, value) == [node |-> "Constant", type |-> type, value |-> value]
OtherExpr == [node |-> "Other"]
Str(s) == Constant("str", s)
Keyword(arg, value) == [arg |-> arg, value |-> value]

\* statement nodes
Import(name, asname) == [stmt |-> "Import", name |-> name, asname |-> asname]
ImportFrom(module, name, asname) ==
    [stmt |-> "ImportFrom", module |-> module, name |-> name, asname |-> asname]
Call(func, args, keywords) ==
    [stmt |-> "Call", func |-> func, args |-> args, keywords |-> keywords]
\* statements that hold a block of statements, and statements that end one
FunctionDef(body) == [stmt |-> "FunctionDef", body |-> body]
AsyncFunctionDef(body) == [stmt |-> "AsyncFunctionDef", body |-> body]
If(body) == [stmt |-> "If", body |-> body]
For(body) == [stmt |-> "For", body |-> body]
Return == [stmt |-> "Return"]
Raise == [stmt |-> "Raise"]
Break == [stmt |-> "Break"]
Continue == [stmt |-> "Continue"]
Pass == [stmt |-> "Pass"]

HasBody(node) == node.stmt \in {"FunctionDef", "AsyncFunctionDef", "If", "For"}

\* the statements of a block and of the blocks inside it: each is on a line
\* of its own, in the order of the source
RECURSIVE NodeCount(_)
NodeCount(body) ==
    IF body = <<>> THEN 0
    ELSE 1 + (IF HasBody(Head(body)) THEN NodeCount(Head(body).body) ELSE 0)
           + NodeCount(Tail(body))

\* the line of body[i] when body[1] is on first_line
LineOfIndex(body, first_line, i) == first_line + NodeCount(SubSeq(body, 1, i - 1))

AssertStmt(test) == [stmt |-> "Assert", test |-> test]

\* an integer literal, a unary operator applied to an expression, an f-string
\* and a call used as an expression
IntConstant(n) == [node |-> "Constant", type |-> "int", int |-> n]
UnaryOp(op, operand) == [node |-> "UnaryOp", op |-> op, operand |-> operand]
JoinedStr == [node |-> "JoinedStr"]
CallExpr(func, args) ==
    [node |-> "Call", func |-> func, args |-> args, keywords |-> <<>>]

\* an identifier: its text and the characters of the text
RECURSIVE Join(_)
Join(chars) == IF chars = <<>> THEN "" ELSE Head(chars) \o Join(Tail(chars))

Identifier(chars) == [node |-> "Name", id |-> Join(chars), chars |-> chars]

\* the statements `target = ... = value` and `target: annotation = value`
\* (value None when the annotation has no value)
Assign(targets, value) == [stmt |-> "Assign", targets |-> targets, value |-> value]
AnnAssign(target, value) == [stmt |-> "AnnAssign", target |-> target, value |-> value]
NoValue == [node |-> "None"]

\* the comparison chain `left ops[1] comparators[1] ops[2] comparators[2] ...`
Compare(left, ops, comparators) ==
    [stmt |-> "Compare", left |-> left, ops |-> ops, comparators |-> comparators]

NoneLiteral == Constant("NoneType", "None")

\* the statements `value[slice]` and `target op= value`
Subscript(value, slice) == [stmt |-> "Subscript", value |-> value, slice |-> slice]
AugAssign(target, op, value) ==
    [stmt |-> "AugAssign", target |-> target, op |-> op, value |-> value]

\* truth value of a constant's value, as `if node.test.value:` takes it
PyTruthy(c) ==
    CASE c.type = "bool" -> c.value = "True"
      [] c.type = "str"  -> c.value # ""
      [] c.type = "int"  -> c.value # "0"
      [] OTHER           -> FALSE

\* str.lower() on the strings of the model
Lower(s) ==
    CASE s = "MD5"  -> "md5"
      [] s = "SHA1" -> "sha1"
      [] OTHER      -> s

-----------------------------------------------------------------------------
(* Finding model *)

Severities == <<"ERROR", "WARNING", "INFO", "HINT">>

\* the rank of a severity under ERROR < WARNING < INFO < HINT
Rank(severity) ==
    CASE severity = "ERROR"   -> 0
      [] severity = "WARNING" -> 1
      [] severity = "INFO"    -> 2
      [] severity = "HINT"    -> 3

\* Severity.__lt__
Severity_lt(self, other) == Rank(self) < Rank(other)

\* a message: the text of its template, and the names and numbers put into it
Msg(text, strs, nums) == [text |-> text, strs |-> strs, nums |-> nums]

Finding(message, severity, file, line, column, rule_id, category, suggestion) ==
    [message |-> message, severity |-> severity,
     location |-> [file |-> file, line |-> line, column |-> column],
     rule_id |-> rule_id, category |-> category, suggestion |-> suggestion]

-----------------------------------------------------------------------------
(* Files *)

Paths == {"a.py", "b.py"}

\* a line of text: its length without the line break, and how many of its
\* last characters are whitespace
Line(chars, ws) == [chars |-> chars, ws |-> ws]

File(status, lines, final_newline, syntax, tree) ==
    [status |-> status, lines |-> lines, final_newline |-> final_newline,
     syntax |-> syntax, tree |-> tree]

SyntaxOk == [ok |-> TRUE]
SyntaxErr(lineno, offset, msg) ==
    [ok |-> FALSE, lineno |-> lineno, offset |-> offset, msg |-> msg]

\* Path.read_text(encoding="utf-8"): the exception it raises, or None
read_text(file) ==
    CASE file.status = "missing"   -> "FileNotFoundError"
      [] file.status = "directory" -> "IsADirectoryError"
      [] file.status = "denied"    -> "PermissionError"
      [] file.status = "not_utf8"  -> "UnicodeDecodeError"
      [] OTHER                     -> None

\* ast.parse(source): whether it raises SyntaxError
parses(file) == file.syntax.ok

-----------------------------------------------------------------------------
(* StylePass: the line-oriented scan and the import-order check *)

MAX_LINE_LENGTH == 100

\* a variant of the blank-line counter that a non-blank line does not reset
consecutive_blank_lines_kept(blank, consecutive) ==
    IF blank THEN consecutive + 1 ELSE consecutive

\* consecutive_blank_lines after a line: one more on a blank line, 0 otherwise
consecutive_blank_lines(blank, consecutive) ==
    IF blank THEN consecutive + 1 ELSE 0

\* the findings of lines[i..], with `consecutive` blank lines just before
RECURSIVE LineIssuesFrom(_, _, _, _)
LineIssuesFrom(file_path, lines, i, consecutive) ==
    IF i > Len(lines) THEN <<>>
    ELSE
      LET line == lines[i]
          blank == line.ws = line.chars
          count == consecutive_blank_lines(blank, consecutive)
          too_long ==
              IF line.chars > MAX_LINE_LENGTH
              THEN <<Finding(Msg("Line too long", <<>>, <<line.chars, MAX_LINE_LENGTH>>),
                             "INFO", file_path, i, MAX_LINE_LENGTH, "STY001",
                             "style", "Break this line")>>
              ELSE <<>>
          trailing ==
              IF line.ws > 0
              THEN <<Finding(Msg("Trailing whitespace", <<>>, <<>>), "HINT", file_path, i,
                             line.chars - line.ws, "STY002", "style",
                             "Remove trailing whitespace")>>
              ELSE <<>>
          blanks ==
              IF blank /\ count > 2
              THEN <<Finding(Msg("Too many consecutive blank lines", <<>>, <<>>), "HINT",
                             file_path, i, 0, "STY003", "style",
                             "Use at most 2 consecutive blank lines")>>
              ELSE <<>>
      IN too_long \o trailing \o blanks
           \o LineIssuesFrom(file_path, lines, i + 1, count)

_check_line_issues(file_path, file) ==
    LineIssuesFrom(file_path, file.lines, 1, 0)
      \o IF Len(file.lines) > 0 /\ ~file.final_newline
         THEN <<Finding(Msg("File does not end with newline", <<>>, <<>>), "HINT", file_path,
                        Len(file.lines), 0, "STY004", "style",
                        "Add a newline at end of file")>>
         ELSE <<>>

stdlib_modules ==
    {"abc", "ast", "asyncio", "base64", "collections", "contextlib",
     "copy", "dataclasses", "datetime", "decimal", "enum", "functools",
     "hashlib", "hmac", "html", "http", "importlib", "inspect", "io",
     "itertools", "json", "logging", "math", "operator", "os", "pathlib",
     "pickle", "platform", "pprint", "queue", "random", "re", "secrets",
     "shutil", "signal", "socket", "sqlite3", "string", "subprocess",
     "sys", "tempfile", "threading", "time", "traceback", "typing",
     "unittest", "urllib", "uuid", "warnings", "weakref", "xml", "zipfile"}

\* the module names of the model hold no dot: the top-level name is the name
_classify_import(module_name) ==
    IF module_name \in stdlib_modules THEN "stdlib"
    ELSE IF module_name = "review_agent" THEN "local"
    ELSE "third_party"

expected_order == <<"stdlib", "third_party", "local">>

IndexOf(seq, x) == CHOOSE i \in 1..Len(seq) : seq[i] = x

\* the imports of tree[i..] checked against the running group index
\* (1-based here, 0-based in the source)
RECURSIVE ImportOrderFrom(_, _, _, _)
ImportOrderFrom(file_path, tree, i, current_group_idx) ==
    IF i > Len(tree) THEN <<>>
    ELSE
      LET node == tree[i]
          module == IF node.stmt = "Import" THEN node.name
                    ELSE IF node.stmt = "ImportFrom" THEN node.module
                    ELSE None
      IN IF module = None
         THEN ImportOrderFrom(file_path, tree, i + 1, current_group_idx)
         ELSE
           LET type_idx == IndexOf(expected_order, _classify_import(module))
           IN IF type_idx < current_group_idx
              THEN <<Finding(Msg("Import is out of order",
                                 <<module, expected_order[current_group_idx]>>, <<>>),
                             "INFO", file_path, i, 0, "STY005", "style",
                             "Group imports: stdlib, then third-party, then local")>>
                     \o ImportOrderFrom(file_path, tree, i + 1, current_group_idx)
              ELSE ImportOrderFrom(file_path, tree, i + 1, type_idx)

\* the statements of a list and of the blocks in it in source order: what
\* ast.walk finds, once sorted by line
RECURSIVE Walk(_)
Walk(body) ==
    IF body = <<>> THEN <<>>
    ELSE <<Head(body)>>
           \o (IF HasBody(Head(body)) THEN Walk(Head(body).body) ELSE <<>>)
           \o Walk(Tail(body))

_check_imports(file_path, tree) == ImportOrderFrom(file_path, Walk(tree), 1, 1)

-----------------------------------------------------------------------------
(* SecurityPass: the checker and its visit methods *)

\* dict.get(key, default) on a function
Get(map, key, default) == IF key \in DOMAIN map THEN map[key] ELSE default

\* map[key] = value
Put(map, key, value) ==
    [k \in DOMAIN map \cup {key} |-> IF k = key THEN value ELSE map[k]]

EmptyMap == [k \in {} |-> None]

_DANGEROUS_CALLS == [k \in {"eval", "exec"} |-> IF k = "eval" THEN "SEC001" ELSE "SEC002"]

\* (module, function) -> (rule_id, message)
_DANGEROUS_MODULE_CALLS ==
    [k \in {<<"os", "system">>, <<"os", "popen">>, <<"pickle", "loads">>,
            <<"pickle", "load">>, <<"marshal", "loads">>, <<"shelve", "open">>,
            <<"yaml", "load">>} |->
       CASE k = <<"os", "system">>     -> <<"SEC005", "Use of os.system() allows shell injection">>
         [] k = <<"os", "popen">>      -> <<"SEC005", "Use of os.popen() allows shell injection">>
         [] k = <<"pickle", "loads">>  -> <<"SEC006", "Deserializing untrusted data with pickle can execute arbitrary code">>
         [] k = <<"pickle", "load">>   -> <<"SEC006", "Deserializing untrusted data with pickle can execute arbitrary code">>
         [] k = <<"marshal", "loads">> -> <<"SEC006", "Deserializing untrusted data with marshal can execute arbitrary code">>
         [] k = <<"shelve", "open">>   -> <<"SEC006", "shelve uses pickle internally">>
         [] OTHER                      -> <<"SEC009", "yaml.load() without SafeLoader can execute arbitrary code">>]

_WEAK_HASHES == {"md5", "sha1"}

SubprocessFunctions == {"run", "call", "check_call", "check_output", "Popen"}

\* the parts of the dotted name of a call's target, as func_name.split(".")
\* yields them (an identifier holds no dot), or <<>> for None
_resolve_call_name(func) ==
    IF func.node = "Attribute" /\ func.value.node = "Name"
    THEN <<func.value.id, func.attr>>
    ELSE IF func.node = "Name" THEN <<func.id>>
    ELSE <<>>

\* a variant of _add_finding that leaves the category at its default
SecFindingDefaultCategory(file_path, message, severity, line, rule_id, suggestion) ==
    Finding(message, severity, file_path, line, 0, rule_id, "general", suggestion)

SecFinding(file_path, message, severity, line, rule_id, suggestion) ==
    Finding(message, severity, file_path, line, 0, rule_id, "security", suggestion)

_check_dangerous_builtins(file_path, node, line) ==
    IF node.func.node # "Name" THEN <<>>
    ELSE IF node.func.id \notin DOMAIN _DANGEROUS_CALLS THEN <<>>
    ELSE <<SecFinding(file_path, Msg("Use of builtin is a security risk", <<node.func.id>>, <<>>),
                      "ERROR", line, _DANGEROUS_CALLS[node.func.id],
                      "Use ast.literal_eval() or a dedicated parser")>>

RECURSIVE ShellTrueFindings(_, _, _, _, _)
ShellTrueFindings(file_path, keywords, k, attr, line) ==
    IF k > Len(keywords) THEN <<>>
    ELSE (IF keywords[k].arg = "shell"
             /\ keywords[k].value = Constant("bool", "True")
          THEN <<SecFinding(file_path, Msg("subprocess called with shell=True", <<attr>>, <<>>),
                            "WARNING", line, "SEC004",
                            "Avoid shell=True")>>
          ELSE <<>>)
         \o ShellTrueFindings(file_path, keywords, k + 1, attr, line)

_check_subprocess_shell(file_path, import_aliases, node, line) ==
    LET parts == _resolve_call_name(node.func)
    IN IF Len(parts) # 2 THEN <<>>
       ELSE IF Get(import_aliases, parts[1], parts[1]) # "subprocess" THEN <<>>
       ELSE IF parts[2] \notin SubprocessFunctions THEN <<>>
       ELSE ShellTrueFindings(file_path, node.keywords, 1, parts[2], line)

\* a variant of yaml_load_is_safe that takes a Loader keyword only
yaml_load_is_safe_by_keyword(node) ==
    \E k \in 1..Len(node.keywords) : node.keywords[k].arg = "Loader"

\* yaml.load() is safe when a Loader keyword or a second positional argument
\* is given: the two early returns of _check_dangerous_module_calls
yaml_load_is_safe(node) ==
    \/ \E k \in 1..Len(node.keywords) : node.keywords[k].arg = "Loader"
    \/ Len(node.args) >= 2

\* a variant of _check_dangerous_module_calls that matches the receiver's
\* name as written, without resolving it through the alias map
_check_dangerous_module_calls_unresolved(file_path, import_aliases, node, line) ==
    LET parts == _resolve_call_name(node.func)
    IN IF Len(parts) # 2 THEN <<>>
       ELSE
         LET key == <<parts[1], parts[2]>>
         IN IF key \notin DOMAIN _DANGEROUS_MODULE_CALLS THEN <<>>
            ELSE IF key = <<"yaml", "load">> /\ yaml_load_is_safe(node)
            THEN <<>>
            ELSE <<Finding(Msg(_DANGEROUS_MODULE_CALLS[key][2], <<>>, <<>>), "WARNING",
                           file_path, line, 0, _DANGEROUS_MODULE_CALLS[key][1],
                           "security", "See https://owasp.org for secure alternatives")>>

_check_dangerous_module_calls(file_path, import_aliases, node, line) ==
    LET parts == _resolve_call_name(node.func)
    IN IF Len(parts) # 2 THEN <<>>
       ELSE
         LET key == <<Get(import_aliases, parts[1], parts[1]), parts[2]>>
         IN IF key \notin DOMAIN _DANGEROUS_MODULE_CALLS THEN <<>>
            ELSE IF key = <<"yaml", "load">> /\ yaml_load_is_safe(node)
            THEN <<>>
            ELSE <<SecFinding(file_path,
                              Msg(_DANGEROUS_MODULE_CALLS[key][2], <<>>, <<>>),
                              "WARNING", line, _DANGEROUS_MODULE_CALLS[key][1],
                              "See https://owasp.org for secure alternatives")>>

_check_dynamic_import(file_path, node, line) ==
    IF node.func.node = "Name" /\ node.func.id = "__import__"
    THEN <<SecFinding(file_path, Msg("Use of __import__()", <<>>, <<>>), "INFO", line,
                      "SEC007", "Use importlib.import_module()")>>
    ELSE <<>>

_check_weak_hashing(file_path, import_aliases, node, line) ==
    LET parts == _resolve_call_name(node.func)
    IN IF Len(parts) # 2 THEN <<>>
       ELSE
         LET resolved_module == Get(import_aliases, parts[1], parts[1])
             attr == parts[2]
         IN (IF resolved_module = "hashlib" /\ attr \in _WEAK_HASHES
             THEN <<SecFinding(file_path, Msg("Use of weak hash algorithm", <<attr>>, <<>>),
                               "WARNING", line, "SEC008",
                               "Use hashlib.sha256() or stronger")>>
             ELSE <<>>)
            \o
            (IF resolved_module = "hashlib" /\ attr = "new" /\ Len(node.args) > 0
                /\ node.args[1].node = "Constant" /\ node.args[1].type = "str"
                /\ Lower(node.args[1].value) \in _WEAK_HASHES
             THEN <<SecFinding(file_path,
                               Msg("Use of weak hash algorithm: hashlib.new",
                                   <<node.args[1].value>>, <<>>),
                               "WARNING", line, "SEC008",
                               "Use 'sha256' or stronger")>>
             ELSE <<>>)

\* a variant of _SecurityChecker_init: one alias map shared by all checkers
SharedImportAliases == checker.security

\* a fresh _SecurityChecker: its alias map
_SecurityChecker_init == EmptyMap

\* visit_Import / visit_ImportFrom: the alias map after the statement
SecurityAliasesAfter(import_aliases, node) ==
    IF node.stmt = "Import"
    THEN Put(import_aliases,
             IF node.asname # None THEN node.asname ELSE node.name, node.name)
    ELSE IF node.stmt = "ImportFrom"
    THEN Put(import_aliases,
             IF node.asname # None THEN node.asname ELSE node.name,
             (IF node.module # None THEN node.module ELSE "") \o "." \o node.name)
    ELSE import_aliases

UpperCase ==
    <<"A", "B", "C", "D", "E", "F", "G", "H", "I", "J", "K", "L", "M",
      "N", "O", "P", "Q", "R", "S", "T", "U", "V", "W", "X", "Y", "Z">>

LowerCase ==
    <<"a", "b", "c", "d", "e", "f", "g", "h", "i", "j", "k", "l", "m",
      "n", "o", "p", "q", "r", "s", "t", "u", "v", "w", "x", "y", "z">>

\* a variant of IgnoreCase that compares the characters as they are
KeepCase(c) == c

\* the character without its case, as re.IGNORECASE compares it
IgnoreCase(c) ==
    IF \E k \in 1..26 : UpperCase[k] = c
    THEN LowerCase[CHOOSE k \in 1..26 : UpperCase[k] = c]
    ELSE c

\* the alternatives of _SECRET_NAME_PATTERN
_SECRET_NAME_PATTERN ==
    {<<"p", "a", "s", "s", "w", "o", "r", "d">>,
     <<"p", "a", "s", "s", "w", "d">>,
     <<"s", "e", "c", "r", "e", "t">>,
     <<"a", "p", "i", "_", "k", "e", "y">>,
     <<"a", "p", "i", "k", "e", "y">>,
     <<"t", "o", "k", "e", "n">>,
     <<"a", "u", "t", "h">>,
     <<"c", "r", "e", "d", "e", "n", "t", "i", "a", "l">>,
     <<"p", "r", "i", "v", "a", "t", "e", "_", "k", "e", "y">>}

\* pattern.search(name) for one alternative: it occurs somewhere in the name
Occurs(word, chars) ==
    \E start \in 1..(Len(chars) - Len(word) + 1) :
        \A k \in 1..Len(word) : IgnoreCase(chars[start + k - 1]) = IgnoreCase(word[k])

\* _SECRET_NAME_PATTERN.search(name)
_SECRET_NAME_PATTERN_search(chars) == \E word \in _SECRET_NAME_PATTERN : Occurs(word, chars)

_check_hardcoded_secret(file_path, target, value, line) ==
    IF ~_SECRET_NAME_PATTERN_search(target.chars) THEN <<>>
    ELSE IF value.node = "Constant" /\ value.type = "str" /\ value.value # ""
    THEN <<SecFinding(file_path, Msg("Possible hardcoded secret in variable", <<target.id>>, <<>>),
                      "WARNING", line, "SEC003",
                      "Use environment variables or a secrets manager")>>
    ELSE <<>>

\* visit_Assign before generic_visit: every target that is a name
RECURSIVE SecretsOfTargets(_, _, _, _, _)
SecretsOfTargets(file_path, targets, k, value, line) ==
    IF k > Len(targets) THEN <<>>
    ELSE (IF targets[k].node = "Name"
          THEN _check_hardcoded_secret(file_path, targets[k], value, line)
          ELSE <<>>)
         \o SecretsOfTargets(file_path, targets, k + 1, value, line)

\* the checks of visit_Call on a call
visit_Call(file_path, import_aliases, node, line) ==
    _check_dangerous_builtins(file_path, node, line)
        \o _check_subprocess_shell(file_path, import_aliases, node, line)
        \o _check_dangerous_module_calls(file_path, import_aliases, node, line)
        \o _check_dynamic_import(file_path, node, line)
        \o _check_weak_hashing(file_path, import_aliases, node, line)

\* generic_visit of an assignment reaches the call its value is
VisitValue(file_path, import_aliases, value, line) ==
    IF value.node = "Call" THEN visit_Call(file_path, import_aliases, value, line) ELSE <<>>

\* visit_Call / visit_Assert / visit_Assign / visit_AnnAssign: the findings
\* of one statement
SecurityVisitStmt(file_path, import_aliases, node, line) ==
    CASE node.stmt = "Call" -> visit_Call(file_path, import_aliases, node, line)
      [] node.stmt = "Assert" ->
           <<SecFinding(file_path, Msg("assert statements are removed with -O", <<>>, <<>>),
                        "INFO", line, "SEC011", "Use explicit if/raise")>>
      [] node.stmt = "Assign" ->
           SecretsOfTargets(file_path, node.targets, 1, node.value, line)
             \o VisitValue(file_path, import_aliases, node.value, line)
      [] node.stmt = "AnnAssign" ->
           IF node.value = NoValue THEN <<>>
           ELSE (IF node.target.node = "Name"
                 THEN _check_hardcoded_secret(file_path, node.target, node.value, line)
                 ELSE <<>>)
                \o VisitValue(file_path, import_aliases, node.value, line)
      [] OTHER -> <<>>

\* a variant of SecurityVisitFrom that collects the aliases of every import
\* of the file before it visits the first statement
RECURSIVE AllAliasesFrom(_, _, _)
AllAliasesFrom(tree, i, import_aliases) ==
    IF i > Len(tree) THEN import_aliases
    ELSE AllAliasesFrom(tree, i + 1, SecurityAliasesAfter(import_aliases, tree[i]))

RECURSIVE VisitWithAliases(_, _, _, _)
VisitWithAliases(file_path, tree, i, import_aliases) ==
    IF i > Len(tree) THEN <<>>
    ELSE SecurityVisitStmt(file_path, import_aliases, tree[i], i)
           \o VisitWithAliases(file_path, tree, i + 1, import_aliases)

SecurityVisitAfterPrepass(file_path, tree, i, import_aliases) ==
    LET all == AllAliasesFrom(tree, 1, import_aliases)
    IN [findings |-> VisitWithAliases(file_path, tree, i, all), import_aliases |-> all]

\* a variant of AliasesAfterBlock that forgets the imports of the block
AliasesRestoredAfterBlock(before, inside) == before

\* the alias map after generic_visit returns from the block of a statement:
\* the map is a field of the checker and nothing takes a binding out of it
AliasesAfterBlock(before, inside) == inside

\* checker.visit over the statements body[i..], body[i] on the given line:
\* the findings and the final alias map
RECURSIVE SecurityVisitBody(_, _, _, _, _)
SecurityVisitBody(file_path, body, i, line, import_aliases) ==
    IF i > Len(body)
    THEN [findings |-> <<>>, import_aliases |-> import_aliases]
    ELSE
      LET inner == IF HasBody(body[i])
                   THEN SecurityVisitBody(file_path, body[i].body, 1, line + 1,
                                          import_aliases)
                   ELSE [findings |-> <<>>,
                         import_aliases |-> SecurityAliasesAfter(import_aliases, body[i])]
          rest == SecurityVisitBody(file_path, body, i + 1,
                                    line + NodeCount(<<body[i]>>),
                                    AliasesAfterBlock(import_aliases, inner.import_aliases))
      IN [findings |-> SecurityVisitStmt(file_path, import_aliases, body[i], line)
                           \o inner.findings \o rest.findings,
          import_aliases |-> rest.import_aliases]

\* checker.visit(tree) from statement i on: the findings and the final alias map
SecurityVisitFrom(file_path, tree, i, import_aliases) ==
    SecurityVisitBody(file_path, tree, i, LineOfIndex(tree, 1, i), import_aliases)

-----------------------------------------------------------------------------
(* CorrectnessPass and PerformancePass: the checkers' visit methods *)

\* a fresh _CorrectnessChecker: its imported_names
_CorrectnessChecker_init == {}

\* visit_Import / visit_ImportFrom: imported_names after the statement
CorrectnessImportedAfter(imported_names, node) ==
    IF node.stmt = "Import"
    THEN imported_names \cup {IF node.asname # None THEN node.asname ELSE node.name}
    ELSE IF node.stmt = "ImportFrom" /\ node.name # "*"
    THEN imported_names \cup {IF node.asname # None THEN node.asname ELSE node.name}
    ELSE imported_names

CorFinding(file_path, message, severity, line, rule_id, suggestion) ==
    Finding(message, severity, file_path, line, 0, rule_id, "correctness", suggestion)

\* the index of the first return / raise / break / continue of body, 0 if none
FirstTerminator(body) ==
    LET ends == {i \in 1..Len(body) :
                    body[i].stmt \in {"Return", "Raise", "Break", "Continue"}}
    IN IF ends = {} THEN 0 ELSE CHOOSE i \in ends : \A j \in ends : i <= j

\* a variant of _check_unreachable_code without the break that ends its loop
_check_unreachable_code_every_terminator(file_path, body, first_line) ==
    LET ends == {i \in 1..(Len(body) - 1) :
                    body[i].stmt \in {"Return", "Raise", "Break", "Continue"}}
    IN [k \in 1..Cardinality(ends) |->
          LET i == CHOOSE i \in ends : Cardinality({j \in ends : j < i}) = k - 1
          IN CorFinding(file_path, Msg("Unreachable code detected", <<>>, <<>>), "WARNING",
                        LineOfIndex(body, first_line, i + 1), "COR004",
                        "Remove or move the unreachable code")]

\* _check_unreachable_code(body): the loop ends at the first terminator
_check_unreachable_code(file_path, body, first_line) ==
    LET i == FirstTerminator(body)
    IN IF i # 0 /\ i < Len(body)
       THEN <<CorFinding(file_path, Msg("Unreachable code detected", <<>>, <<>>), "WARNING",
                         LineOfIndex(body, first_line, i + 1), "COR004",
                         "Remove or move the unreachable code")>>
       ELSE <<>>

\* isinstance(e, ast.Constant) and e.value is None
IsNoneConstant(e) == e.node = "Constant" /\ e.type = "NoneType"

\* the finding of visit_Compare for an == / != with None on one side
NoneComparison(file_path, op, line, side) ==
    CorFinding(file_path,
               Msg("Comparison to None should use is", 
                   IF op = "Eq" THEN <<"is", "==">> ELSE <<"is not", "!=">>, <<>>),
               "WARNING", line, "COR002",
               IF side = "right" THEN "Use 'is None'" ELSE "Use 'None is'")

\* a variant of visit_Compare that looks at the comparator of a position only
RECURSIVE visit_Compare_right_only(_, _, _, _)
visit_Compare_right_only(file_path, node, i, line) ==
    IF i > Len(node.ops) THEN <<>>
    ELSE (IF node.ops[i] \in {"Eq", "NotEq"} /\ IsNoneConstant(node.comparators[i])
          THEN <<NoneComparison(file_path, node.ops[i], line, "right")>>
          ELSE <<>>)
         \o visit_Compare_right_only(file_path, node, i + 1, line)

\* visit_Compare from position i on (1-based here, 0-based in the source)
RECURSIVE visit_Compare(_, _, _, _)
visit_Compare(file_path, node, i, line) ==
    IF i > Len(node.ops) THEN <<>>
    ELSE
      LET left == IF i = 1 THEN node.left ELSE node.comparators[i - 1]
      IN (IF node.ops[i] \in {"Eq", "NotEq"}
          THEN IF IsNoneConstant(node.comparators[i])
               THEN <<NoneComparison(file_path, node.ops[i], line, "right")>>
               ELSE IF IsNoneConstant(left)
               THEN <<NoneComparison(file_path, node.ops[i], line, "left")>>
               ELSE <<>>
          ELSE <<>>)
         \o visit_Compare(file_path, node, i + 1, line)

\* what the visit_ method of a node emits before generic_visit: visit_Assert,
\* visit_FunctionDef and visit_AsyncFunctionDef of _CorrectnessChecker
CorrectnessVisitStmt(file_path, node, line) ==
    IF node.stmt = "Assert" /\ node.test.node = "Constant"
    THEN IF PyTruthy(node.test)
         THEN <<CorFinding(file_path, Msg("Assertion is always true", <<>>, <<>>), "INFO",
                           line, "COR006", "Remove the assertion or fix the condition")>>
         ELSE <<CorFinding(file_path, Msg("Assertion is always false", <<>>, <<>>), "WARNING",
                           line, "COR007", "This will always raise AssertionError")>>
    ELSE IF node.stmt \in {"FunctionDef", "AsyncFunctionDef"}
    THEN _check_unreachable_code(file_path, node.body, line + 1)
    ELSE IF node.stmt = "Compare"
    THEN visit_Compare(file_path, node, 1, line)
    ELSE <<>>

\* a variant of the visit that visits the children of a node before it runs
\* the checks of the node
RECURSIVE CorrectnessVisitChildrenFirst(_, _, _, _, _)
CorrectnessVisitChildrenFirst(file_path, body, i, line, imported_names) ==
    IF i > Len(body)
    THEN [findings |-> <<>>, imported_names |-> imported_names]
    ELSE
      LET inner == IF HasBody(body[i])
                   THEN CorrectnessVisitChildrenFirst(file_path, body[i].body, 1, line + 1,
                                                      imported_names)
                   ELSE [findings |-> <<>>,
                         imported_names |-> CorrectnessImportedAfter(imported_names, body[i])]
          rest == CorrectnessVisitChildrenFirst(file_path, body, i + 1,
                                                line + NodeCount(<<body[i]>>),
                                                inner.imported_names)
      IN [findings |-> inner.findings \o CorrectnessVisitStmt(file_path, body[i], line)
                           \o rest.findings,
          imported_names |-> rest.imported_names]

\* checker.visit over the statements body[i..], body[i] on the given line:
\* the visit_ method of the statement, then generic_visit over its block
RECURSIVE CorrectnessVisitFrom(_, _, _, _, _)
CorrectnessVisitFrom(file_path, body, i, line, imported_names) ==
    IF i > Len(body)
    THEN [findings |-> <<>>, imported_names |-> imported_names]
    ELSE
      LET inner == IF HasBody(body[i])
                   THEN CorrectnessVisitFrom(file_path, body[i].body, 1, line + 1,
                                             imported_names)
                   ELSE [findings |-> <<>>,
                         imported_names |-> CorrectnessImportedAfter(imported_names, body[i])]
          rest == CorrectnessVisitFrom(file_path, body, i + 1,
                                       line + NodeCount(<<body[i]>>),
                                       inner.imported_names)
      IN [findings |-> CorrectnessVisitStmt(file_path, body[i], line)
                           \o inner.findings \o rest.findings,
          imported_names |-> rest.imported_names]

constructors ==
    [k \in {"dict", "list", "tuple"} |->
       CASE k = "dict" -> <<"PERF005", "{}", "dict()">>
         [] k = "list" -> <<"PERF005", "[]", "list()">>
         [] OTHER      -> <<"PERF005", "()", "tuple()">>]

\* visit_Call of _PerformanceChecker
_check_constructor_vs_literal(file_path, node, line) ==
    IF node.func.node # "Name" THEN <<>>
    ELSE IF Len(node.args) > 0 \/ Len(node.keywords) > 0 THEN <<>>
    ELSE IF node.func.id \notin DOMAIN constructors THEN <<>>
    ELSE
      LET entry == constructors[node.func.id]
      IN <<Finding(Msg("constructor is slower than literal", <<entry[3], entry[2]>>, <<>>),
                   "HINT", file_path, line, 0, entry[1], "performance",
                   "Use the literal")>>

PerfFinding(file_path, message, severity, line, rule_id, suggestion) ==
    Finding(message, severity, file_path, line, 0, rule_id, "performance", suggestion)

\* isinstance(c.value, int) on a constant: bool is a subclass of int
IsIntConstant(c) == c.node = "Constant" /\ c.type \in {"int", "bool"}

IntValue(c) == IF c.type = "bool" THEN (IF c.value = "True" THEN 1 ELSE 0) ELSE c.int

\* a variant of _resolve_index that takes the operand of a unary minus as it is
_resolve_index_unsigned(node) ==
    IF IsIntConstant(node) THEN <<IntValue(node)>>
    ELSE IF node.node = "UnaryOp" /\ node.op = "USub" /\ IsIntConstant(node.operand)
    THEN <<IntValue(node.operand)>>
    ELSE NoInt

\* _resolve_index: the integer of the index, NoInt for None
_resolve_index(node) ==
    IF IsIntConstant(node) THEN <<IntValue(node)>>
    ELSE IF node.node = "UnaryOp" /\ node.op = "USub" /\ IsIntConstant(node.operand)
    THEN <<0 - IntValue(node.operand)>>
    ELSE NoInt

\* visit_Subscript of _PerformanceChecker
visit_Subscript(file_path, node, line) ==
    IF node.value.node # "Call" THEN <<>>
    ELSE IF ~(node.value.func.node = "Name" /\ node.value.func.id = "sorted") THEN <<>>
    ELSE
      LET idx == _resolve_index(node.slice)
      IN IF idx = NoInt THEN <<>>
         ELSE IF idx[1] = 0
         THEN <<PerfFinding(file_path, Msg("sorted(...)[0] is O(n log n)", <<"min">>, <<>>),
                            "WARNING", line, "PERF006", "Replace sorted(x)[0] with min(x)")>>
         ELSE IF idx[1] = -1
         THEN <<PerfFinding(file_path, Msg("sorted(...)[-1] is O(n log n)", <<"max">>, <<>>),
                            "WARNING", line, "PERF006", "Replace sorted(x)[-1] with max(x)")>>
         ELSE <<>>

\* ast.walk: the nodes of the queue and of their blocks, breadth first, each
\* with its line
RECURSIVE WalkBreadthFirst(_)
WalkBreadthFirst(queue) ==
    IF queue = <<>> THEN <<>>
    ELSE LET first == Head(queue)
             children ==
                 IF HasBody(first.node)
                 THEN [k \in 1..Len(first.node.body) |->
                         [node |-> first.node.body[k],
                          line |-> LineOfIndex(first.node.body, first.line + 1, k)]]
                 ELSE <<>>
         IN <<first>> \o WalkBreadthFirst(Tail(queue) \o children)

\* the tests of _check_string_concat_in_loop on a statement of the walk
IsStringConcat(stmt) ==
    /\ stmt.stmt = "AugAssign"
    /\ stmt.op = "Add"
    /\ stmt.target.node = "Name"
    /\ \/ (stmt.value.node = "Constant" /\ stmt.value.type = "str")
       \/ stmt.value.node = "JoinedStr"

\* a variant of _check_string_concat_in_loop that looks at the statements of
\* the loop body only, not at the blocks inside them
_check_string_concat_in_body(file_path, node, line) ==
    LET hits == SelectSeq([k \in 1..Len(node.body) |->
                              [node |-> node.body[k],
                               line |-> LineOfIndex(node.body, line + 1, k)]],
                          LAMBDA e : IsStringConcat(e.node))
    IN [k \in 1..Len(hits) |->
          PerfFinding(file_path,
                      Msg("String concatenation with += in loop",
                          <<hits[k].node.target.id>>, <<>>),
                      "WARNING", hits[k].line, "PERF002", "Use ''.join() or a list")]

\* _check_string_concat_in_loop: every `name += string` of ast.walk(node)
_check_string_concat_in_loop(file_path, node, line) ==
    LET hits == SelectSeq(WalkBreadthFirst(<<[node |-> node, line |-> line]>>),
                          LAMBDA e : IsStringConcat(e.node))
    IN [k \in 1..Len(hits) |->
          PerfFinding(file_path,
                      Msg("String concatenation with += in loop",
                          <<hits[k].node.target.id>>, <<>>),
                      "WARNING", hits[k].line, "PERF002", "Use ''.join() or a list")]

IsAppendCall(stmt) ==
    /\ stmt.stmt = "Call"
    /\ stmt.func.node = "Attribute" /\ stmt.func.attr = "append"
    /\ Len(stmt.args) = 1 /\ Len(stmt.keywords) = 0

\* _check_append_in_loop: the body is one .append(expr), or one if of one
\* .append(expr)
_check_append_in_loop(file_path, node, line) ==
    IF Len(node.body) # 1 THEN <<>>
    ELSE IF IsAppendCall(node.body[1])
    THEN <<PerfFinding(file_path, Msg("Simple .append() in for-loop", <<>>, <<>>), "HINT",
                       line, "PERF003", "Consider a list comprehension")>>
    ELSE IF node.body[1].stmt = "If" /\ Len(node.body[1].body) = 1
              /\ IsAppendCall(node.body[1].body[1])
    THEN <<PerfFinding(file_path, Msg("Filtered .append() in for-loop", <<>>, <<>>), "HINT",
                       line, "PERF003", "Consider a list comprehension")>>
    ELSE <<>>

\* visit_For before generic_visit; the loops of the model do not iterate over
\* range(len(...)), so _check_range_len adds nothing
visit_For(file_path, node, line) ==
    _check_append_in_loop(file_path, node, line)
        \o _check_string_concat_in_loop(file_path, node, line)

\* what the visit_ method of a statement emits, and for a subscript what
\* generic_visit emits for the call it subscripts
PerformanceVisitStmt(file_path, node, line) ==
    CASE node.stmt = "Call"      -> _check_constructor_vs_literal(file_path, node, line)
      [] node.stmt = "Subscript" ->
             visit_Subscript(file_path, node, line)
               \o (IF node.value.node = "Call"
                   THEN _check_constructor_vs_literal(file_path, node.value, line)
                   ELSE <<>>)
      [] node.stmt = "For"       -> visit_For(file_path, node, line)
      [] OTHER                   -> <<>>

\* checker.visit over the statements body[i..], body[i] on the given line
RECURSIVE PerformanceVisitFrom(_, _, _, _)
PerformanceVisitFrom(file_path, body, i, line) ==
    IF i > Len(body) THEN <<>>
    ELSE PerformanceVisitStmt(file_path, body[i], line)
           \o (IF HasBody(body[i])
               THEN PerformanceVisitFrom(file_path, body[i].body, 1, line + 1)
               ELSE <<>>)
           \o PerformanceVisitFrom(file_path, body, i + 1, line + NodeCount(<<body[i]>>))

-----------------------------------------------------------------------------
(* analyze of the four passes.  Each yields the outcome of the call and    *)
(* the fields of the checker it constructed (chk where it constructed none) *)

Outcome(exc, findings, chk) == [exc |-> exc, findings |-> findings, checker |-> chk]

\* a variant of FileNotFound that reports line 0
FileNotFoundAtLineZero(file_path, rule_id, category) ==
    Finding(Msg("File not found", <<file_path>>, <<>>), "ERROR", file_path, 0, 0,
            rule_id, category, None)

FileNotFound(file_path, rule_id, category) ==
    Finding(Msg("File not found", <<file_path>>, <<>>), "ERROR", file_path, 1, 0,
            rule_id, category, None)

\* a variant of SyntaxErrorFinding that ignores the reported position
SyntaxErrorAtFirstLine(file_path, e, rule_id, category) ==
    Finding(Msg("Syntax error", <<e.msg>>, <<>>), "ERROR", file_path, 1, 0,
            rule_id, category, None)

SyntaxErrorFinding(file_path, e, rule_id, category) ==
    Finding(Msg("Syntax error", <<e.msg>>, <<>>), "ERROR", file_path,
            PyOr(e.lineno, 1), PyOr(e.offset, 0), rule_id, category, None)

CorrectnessPass_analyze(chk, file_path) ==
    LET file == fs[file_path]
        exc == read_text(file)
    IN IF exc = "FileNotFoundError"
       THEN Outcome(None, <<FileNotFound(file_path, "COR000", "correctness")>>, chk)
       ELSE IF exc # None THEN Outcome(exc, <<>>, chk)
       ELSE IF ~parses(file)
       THEN Outcome(None, <<SyntaxErrorFinding(file_path, file.syntax, "COR001",
                                               "correctness")>>, chk)
       ELSE
         LET visit == CorrectnessVisitFrom(file_path, file.tree, 1, 1,
                                           _CorrectnessChecker_init)
         IN Outcome(None, visit.findings,
                    [chk EXCEPT !.correctness = visit.imported_names])

\* a variant of SecurityPass.analyze that keeps one checker across calls
SecurityPass_analyze_reusing_checker(chk, file_path) ==
    LET file == fs[file_path]
        exc == read_text(file)
    IN IF exc = "FileNotFoundError"
       THEN [exc |-> None, checker |-> chk,
             findings |-> <<Finding(Msg("File not found", <<file_path>>, <<>>), "ERROR",
                                    file_path, 1, 0, "SEC000", "security", None)>>]
       ELSE IF exc # None THEN [exc |-> exc, findings |-> <<>>, checker |-> chk]
       ELSE IF ~parses(file)
       THEN [exc |-> None, checker |-> chk,
             findings |-> <<Finding(Msg("Syntax error", <<file.syntax.msg>>, <<>>), "ERROR",
                                    file_path, PyOr(file.syntax.lineno, 1),
                                    PyOr(file.syntax.offset, 0), "SEC000", "security",
                                    None)>>]
       ELSE
         LET visit == SecurityVisitFrom(file_path, file.tree, 1, chk.security)
         IN [exc |-> None, findings |-> visit.findings,
             checker |-> [chk EXCEPT !.security = visit.import_aliases]]

SecurityPass_analyze(chk, file_path) ==
    LET file == fs[file_path]
        exc == read_text(file)
    IN IF exc = "FileNotFoundError"
       THEN Outcome(None, <<FileNotFound(file_path, "SEC000", "security")>>, chk)
       ELSE IF exc # None THEN Outcome(exc, <<>>, chk)
       ELSE IF ~parses(file)
       THEN Outcome(None, <<SyntaxErrorFinding(file_path, file.syntax, "SEC000",
                                               "security")>>, chk)
       ELSE
         LET visit == SecurityVisitFrom(file_path, file.tree, 1, _SecurityChecker_init)
         IN Outcome(None, visit.findings,
                    [chk EXCEPT !.security = visit.import_aliases])

\* a variant of PerformancePass.analyze that skips an unparsable file silently
PerformancePass_analyze_skipping(chk, file_path) ==
    LET file == fs[file_path]
        exc == read_text(file)
    IN IF exc = "FileNotFoundError"
       THEN [exc |-> None, checker |-> chk,
             findings |-> <<Finding(Msg("File not found", <<file_path>>, <<>>), "ERROR",
                                    file_path, 1, 0, "PERF000", "performance", None)>>]
       ELSE IF exc # None THEN [exc |-> exc, findings |-> <<>>, checker |-> chk]
       ELSE IF ~parses(file) THEN [exc |-> None, findings |-> <<>>, checker |-> chk]
       ELSE [exc |-> None, checker |-> chk,
             findings |-> PerformanceVisitFrom(file_path, file.tree, 1, 1)]

PerformancePass_analyze(chk, file_path) ==
    LET file == fs[file_path]
        exc == read_text(file)
    IN IF exc = "FileNotFoundError"
       THEN Outcome(None, <<FileNotFound(file_path, "PERF000", "performance")>>, chk)
       ELSE IF exc # None THEN Outcome(exc, <<>>, chk)
       ELSE IF ~parses(file)
       THEN Outcome(None, <<SyntaxErrorFinding(file_path, file.syntax, "PERF000",
                                               "performance")>>, chk)
       ELSE Outcome(None, PerformanceVisitFrom(file_path, file.tree, 1, 1), chk)

\* a variant of StyleOnSyntaxError that reports the failure as the other passes do
StyleReportsSyntaxError(file_path, e) ==
    <<Finding(Msg("Syntax error", <<e.msg>>, <<>>), "ERROR", file_path,
              PyOr(e.lineno, 1), PyOr(e.offset, 0), "STY000", "style", None)>>

\* what StylePass.analyze does when ast.parse raises SyntaxError: `pass`
StyleOnSyntaxError(file_path, e) == <<>>

\* The statements of the model define no class or function and bind no
\* name, so _StyleChecker.visit emits nothing for them and is left out.
StylePass_analyze(chk, file_path) ==
    LET file == fs[file_path]
        exc == read_text(file)
    IN IF exc = "FileNotFoundError"
       THEN Outcome(None, <<FileNotFound(file_path, "STY000", "style")>>, chk)
       ELSE IF exc # None THEN Outcome(exc, <<>>, chk)
       ELSE Outcome(None,
                    _check_line_issues(file_path, file)
                      \o (IF parses(file)
                          THEN _check_imports(file_path, file.tree)
                          ELSE StyleOnSyntaxError(file_path, file.syntax)),
                    chk)

PassNames == {"correctness", "security", "performance", "style"}

analyze(chk, pass_name, file_path) ==
    CASE pass_name = "correctness" -> CorrectnessPass_analyze(chk, file_path)
      [] pass_name = "security"    -> SecurityPass_analyze(chk, file_path)
      [] pass_name = "performance" -> PerformancePass_analyze(chk, file_path)
      [] OTHER                     -> StylePass_analyze(chk, file_path)

-----------------------------------------------------------------------------
(* The inputs of the engine specification *)

\* all sequences over S of length at most n
SeqsUpTo(S, n) == UNION {[1..k -> S] : k \in 0..n}

\* a blank line, a line of code, one with trailing whitespace, one too long
LineChoices == {Line(0, 0), Line(4, 0), Line(5, 1), Line(MAX_LINE_LENGTH + 1, 0)}

Texts ==
    {[lines |-> l, final_newline |-> n] :
        l \in SeqsUpTo(LineChoices, MaxLines), n \in BOOLEAN}
      \ {[lines |-> <<>>, final_newline |-> TRUE]}

\* a text of n plain lines of code, each ended by a line break
PlainLines(n) == [i \in 1..n |-> Line(4, 0)]

\* some line holds more than whitespace: only such a text can fail to parse
HasCode(lines) == \E i \in 1..Len(lines) : lines[i].ws < lines[i].chars

\* what a SyntaxError reports: lineno is None or a 1-based line, offset is
\* None or a column
SyntaxErrs ==
    {SyntaxErr(l, o, "invalid syntax") :
        l \in {NoInt} \cup {<<n>> : n \in 1..MaxErrPos},
        o \in {NoInt} \cup {<<n>> : n \in 0..MaxErrPos}}

\* import os as o / import yaml / o.system("x") / dict() / assert True
EngineStmts ==
    {Import("os", "o"),
     Import("yaml", None),
     Call(Attribute(Name("o"), "system"), <<Str("x")>>, <<>>),
     Call(Name("dict"), <<>>, <<>>),
     AssertStmt(Constant("bool", "True"))}

UnreadableFiles ==
    {File(st, <<>>, FALSE, SyntaxOk, <<>>) :
        st \in {"missing", "directory", "denied", "not_utf8"}}

\* a parsable file of one plain line per statement of its body
SourceOf(tree) == File("ok", PlainLines(NodeCount(tree)), Len(tree) > 0, SyntaxOk, tree)

MissingFile == File("missing", <<>>, FALSE, SyntaxOk, <<>>)

\* readable files of any text whose body is empty (blank lines, comments) or
\* that fail to parse with no position, and plain one-line files with any
\* parse failure
TextFiles ==
    {File("ok", t.lines, t.final_newline, SyntaxOk, <<>>) : t \in Texts}
      \cup {File("ok", t.lines, t.final_newline,
                 SyntaxErr(NoInt, NoInt, "invalid syntax"), <<>>) :
              t \in {u \in Texts : HasCode(u.lines)}}
      \cup {File("ok", PlainLines(1), TRUE, sy, <<>>) : sy \in SyntaxErrs}

\* parsable files of any body
TreeFiles == {SourceOf(tree) : tree \in SeqsUpTo(EngineStmts, MaxStmts)}

\* the second file of the file system: missing, or one statement at most
SecondFiles ==
    {MissingFile} \cup {SourceOf(tree) : tree \in {<<>>} \cup {<<st>> : st \in EngineStmts}}

NoCall == [pass |-> None, path |-> None, exc |-> None, findings |-> <<>>]
NoRun == [files |-> <<>>, pass_names |-> <<>>, min_severity |-> None,
          exc |-> None, findings |-> <<>>]
NoChecker == [security |-> EmptyMap, correctness |-> {}]
NoRet == [op |-> None, coll |-> 0, value |-> <<>>, count |-> 0]

\* no rate limiter constructed, no call made on one
NoLimiter == [max_calls |-> 0, time_window |-> 0, _timestamps |-> <<>>]
NoAttempt == [op |-> None, exc |-> None, value |-> 0, at |-> 0, before |-> <<>>]

-----------------------------------------------------------------------------
(* The engine specification: analyze calls on the files of a file system *)

Init ==
    /\ \E a \in UnreadableFiles \cup TextFiles \cup TreeFiles,
          b \in SecondFiles :
         fs = [p \in Paths |-> IF p = "a.py" THEN a ELSE b]
    /\ checker = NoChecker
    /\ prev = NoCall
    /\ last = NoCall
    /\ run = NoRun
    /\ heap = <<>>
    /\ colls = <<>>
    /\ ret = NoRet
    /\ rate_limiter = NoLimiter
    /\ time = 0
    /\ attempt = NoAttempt

\* pass_instance.analyze(file_path)
Analyze(pass_name, file_path) ==
    LET out == analyze(checker, pass_name, file_path)
    IN /\ prev' = last
       /\ last' = [pass |-> pass_name, path |-> file_path,
                   exc |-> out.exc, findings |-> out.findings]
       /\ checker' = out.checker
       /\ UNCHANGED <<rate_limiter, time, attempt, fs, run, heap, colls, ret>>

Next == \E pass_name \in PassNames, file_path \in Paths : Analyze(pass_name, file_path)

Spec == Init /\ [][Next]_vars

-----------------------------------------------------------------------------
(* Vocabulary of the properties *)

\* the file the last analyze call was about
LastFile == fs[last.path]

Analyzed == last.pass # None

\* the findings of every phase of a pass over a readable, parsable file,
\* started from the state of a fresh checker
FreshFindings(pass_name, file_path) ==
    LET file == fs[file_path]
    IN CASE pass_name = "correctness" ->
              CorrectnessVisitFrom(file_path, file.tree, 1, 1, {}).findings
         [] pass_name = "security" ->
              SecurityVisitFrom(file_path, file.tree, 1, EmptyMap).findings
         [] pass_name = "performance" ->
              PerformanceVisitFrom(file_path, file.tree, 1, 1)
         [] OTHER ->
              _check_line_issues(file_path, file) \o _check_imports(file_path, file.tree)

\* the rule_id each pass gives a missing file, and an unparsable one
NotFoundRule ==
    [p \in PassNames |->
       CASE p = "correctness" -> "COR000" [] p = "security" -> "SEC000"
         [] p = "performance" -> "PERF000" [] OTHER -> "STY000"]

ParseRule ==
    [p \in PassNames \ {"style"} |->
       CASE p = "correctness" -> "COR001" [] p = "security" -> "SEC000"
         [] OTHER -> "PERF000"]

\* the collection holds exactly one finding, an ERROR with this rule_id
SingleError(findings, rule_id) ==
    /\ Len(findings) = 1
    /\ findings[1].severity = "ERROR"
    /\ findings[1].rule_id = rule_id

RuleIds(findings) == {findings[i].rule_id : i \in 1..Len(findings)}

UnreadableStatuses == {"directory", "denied", "not_utf8"}

Unparsable(file) == file.status = "ok" /\ ~file.syntax.ok

Parsable(file) == file.status = "ok" /\ file.syntax.ok

-----------------------------------------------------------------------------
(* Error handling of analyze *)

\* C1: for each of the four passes, analyze on a path that does not exist
\* returns exactly one finding, an ERROR with the pass's 000 rule_id at
\* line 1, column 0, and raises nothing.
C1_MissingFileOneError ==
    (Analyzed /\ LastFile.status = "missing") =>
        /\ last.exc = None
        /\ SingleError(last.findings, NotFoundRule[last.pass])
        /\ last.findings[1].location = [file |-> last.path, line |-> 1, column |-> 0]

C1_Witness ==
    /\ Analyzed /\ prev.pass # None /\ prev.pass # last.pass
    /\ fs[prev.path].status = "missing"
    /\ LastFile.status = "missing"
    /\ Len(last.findings) = 1

\* C2: a file that exists but cannot be read (a directory, permission
\* denied, bytes that are not UTF-8) yields one ERROR finding with the
\* pass's 000 rule_id and no exception, as a missing file does.
C2_UnreadableFileOneError ==
    (Analyzed /\ LastFile.status \in UnreadableStatuses) =>
        /\ last.exc = None
        /\ SingleError(last.findings, NotFoundRule[last.pass])

\* C3: CorrectnessPass, SecurityPass and PerformancePass on a readable file
\* that does not parse return exactly one ERROR finding (COR001, SEC000,
\* PERF000) at the reported line and column, line 1 / column 0 where the
\* parser reports none.
C3_SyntaxErrorOneError ==
    (Analyzed /\ last.pass # "style" /\ Unparsable(LastFile)) =>
        LET e == LastFile.syntax
        IN /\ last.exc = None
           /\ SingleError(last.findings, ParseRule[last.pass])
           /\ last.findings[1].location.line =
                  (IF e.lineno = NoInt THEN 1 ELSE e.lineno[1])
           /\ last.findings[1].location.column =
                  (IF e.offset = NoInt THEN 0 ELSE e.offset[1])

C3_Witness ==
    /\ Analyzed /\ last.pass = "performance" /\ Unparsable(LastFile)
    /\ LastFile.syntax.lineno = <<MaxErrPos>>
    /\ LastFile.syntax.offset = NoInt
    /\ Len(last.findings) = 1
    /\ last.findings[1].location.line = MaxErrPos

\* the result is the complete result of analysing the file
Complete(call) ==
    /\ Parsable(fs[call.path])
    /\ call.findings = FreshFindings(call.pass, call.path)

\* the result is exactly one ERROR finding
OneErrorOnly(call) ==
    Len(call.findings) = 1 /\ call.findings[1].severity = "ERROR"

\* C4 as stated: for every pass, StylePass included, a returned collection
\* is the complete result or exactly one ERROR finding.
C4_CompleteOrOneError ==
    (Analyzed /\ last.exc = None) => (Complete(last) \/ OneErrorOnly(last))

\* C4 amended: that holds of CorrectnessPass, SecurityPass and
\* PerformancePass; StylePass returns the complete result, one STY000 ERROR
\* for a missing file, or, for a readable file that does not parse, its
\* line-oriented findings alone, none of them an ERROR.
C4_CompleteOrOneErrorButStyle ==
    (Analyzed /\ last.exc = None) =>
        \/ Complete(last)
        \/ OneErrorOnly(last)
        \/ /\ last.pass = "style"
           /\ Unparsable(LastFile)
           /\ last.findings = _check_line_issues(last.path, LastFile)
           /\ \A i \in 1..Len(last.findings) : last.findings[i].severity # "ERROR"

C4_Witness ==
    /\ Analyzed /\ last.exc = None /\ last.pass = "style"
    /\ Unparsable(LastFile)
    /\ Len(last.findings) = 2
    /\ prev.pass = "security" /\ prev.path = last.path /\ OneErrorOnly(prev)

\* C5: StylePass on a readable file that does not parse returns exactly the
\* line-oriented findings (STY001 to STY004) of its text, no ERROR finding
\* and no tree-oriented one, and raises nothing.
C5_StyleUnparsableLinesOnly ==
    (Analyzed /\ last.pass = "style" /\ Unparsable(LastFile)) =>
        /\ last.exc = None
        /\ last.findings = _check_line_issues(last.path, LastFile)
        /\ RuleIds(last.findings) \subseteq {"STY001", "STY002", "STY003", "STY004"}
        /\ \A i \in 1..Len(last.findings) : last.findings[i].severity # "ERROR"

C5_Witness ==
    /\ Analyzed /\ last.pass = "style" /\ Unparsable(LastFile)
    /\ RuleIds(last.findings) = {"STY002", "STY004"}

-----------------------------------------------------------------------------
(* Independence of analyze calls *)

\* C6: two analyze calls of one pass on the same unmodified file return
\* identical outcomes: the same findings, field for field, in the same order.
C6_Idempotent ==
    (Analyzed /\ prev.pass = last.pass /\ prev.path = last.path) =>
        /\ prev.exc = last.exc
        /\ prev.findings = last.findings

C6_Witness ==
    /\ Analyzed /\ prev.pass = last.pass /\ prev.path = last.path
    /\ last.pass = "security"
    /\ \E i \in 1..Len(LastFile.tree) : LastFile.tree[i].stmt = "Import"
    /\ "SEC005" \in RuleIds(last.findings)

BindsName(tree, name) ==
    \E i \in 1..Len(tree) :
        /\ tree[i].stmt \in {"Import", "ImportFrom"}
        /\ name = (IF tree[i].asname # None THEN tree[i].asname ELSE tree[i].name)

\* C7: when one pass analyses file A and then file B, B's result is the one
\* a fresh checker gives B alone; an alias imported in A resolves no call of B.
C7_NoLeakBetweenFiles ==
    (Analyzed /\ prev.pass = last.pass /\ prev.path # last.path
       /\ Parsable(LastFile)) =>
        /\ last.exc = None
        /\ last.findings = FreshFindings(last.pass, last.path)
        /\ (last.pass = "security" /\ ~BindsName(LastFile.tree, "o"))
              => "SEC005" \notin RuleIds(last.findings)

C7_Witness ==
    /\ Analyzed /\ prev.pass = "security" /\ last.pass = "security"
    /\ prev.path = "a.py" /\ last.path = "b.py"
    /\ Parsable(fs["a.py"]) /\ BindsName(fs["a.py"].tree, "o")
    /\ Parsable(LastFile)
    /\ \E i \in 1..Len(LastFile.tree) : LastFile.tree[i].stmt = "Call"
    /\ ~BindsName(LastFile.tree, "o")
    /\ last.findings = <<>>

-----------------------------------------------------------------------------
(* The security-pass specification: SecurityPass.analyze over programs    *)
(* built around one (module, attribute) pair and one argument list         *)

\* the pairs the pass matches, and pairs it does not
FocusPairs ==
    {<<"os", "system">>, <<"os", "popen">>, <<"pickle", "loads">>,
     <<"pickle", "load">>, <<"marshal", "loads">>, <<"shelve", "open">>,
     <<"yaml", "load">>, <<"hashlib", "md5">>, <<"hashlib", "sha1">>,
     <<"hashlib", "new">>, <<"subprocess", "run">>, <<"subprocess", "call">>,
     <<"subprocess", "check_call">>, <<"subprocess", "check_output">>,
     <<"subprocess", "Popen">>,
     <<"os", "getcwd">>, <<"foo", "system">>, <<"pickle", "system">>,
     <<"subprocess", "system">>, <<"hashlib", "sha256">>}

\* argument lists (positional arguments, keywords) tried with a pair
FocusArgs(pair) ==
    CASE pair[2] = "load" ->
           {<<<<>>, <<>>>>,
            <<<<Name("x")>>, <<>>>>,
            <<<<Name("x"), Name("y")>>, <<>>>>,
            <<<<Name("x")>>, <<Keyword("Loader", Name("y"))>>>>,
            <<<<>>, <<Keyword("Loader", Constant("NoneType", "None"))>>>>,
            <<<<Name("x"), Constant("NoneType", "None")>>, <<>>>>,
            <<<<Name("x")>>, <<Keyword("stream", Name("y")), Keyword(None, Name("kw"))>>>>}
      [] pair[2] = "new" ->
           {<<<<>>, <<>>>>,
            <<<<Str("md5")>>, <<>>>>,
            <<<<Str("SHA1")>>, <<>>>>,
            <<<<Str("sha256")>>, <<>>>>,
            <<<<Name("x")>>, <<>>>>}
      [] pair[1] = "subprocess" ->
           {<<<<Name("x")>>, <<>>>>,
            <<<<Name("x")>>, <<Keyword("shell", Constant("bool", "True"))>>>>,
            <<<<Name("x")>>, <<Keyword("shell", Constant("bool", "False"))>>>>}
      [] OTHER ->
           {<<<<Str("x")>>, <<>>>>}

\* import M / import M as a / import foo as a / import foo as M /
\* from M import attr as a / a.attr(...) / M.attr(...) / a(...)
FocusStmts(module, attr, args) ==
    {Import(module, None),
     Import(module, "a"),
     Import("foo", "a"),
     Import("foo", module),
     ImportFrom(module, attr, "a"),
     Call(Attribute(Name("a"), attr), args[1], args[2]),
     Call(Attribute(Name(module), attr), args[1], args[2]),
     Call(Name("a"), args[1], args[2])}

SecurityTrees ==
    UNION {UNION {SeqsUpTo(FocusStmts(pair[1], pair[2], args), MaxSecStmts) :
                    args \in FocusArgs(pair)} :
             pair \in FocusPairs}

InitSecurity ==
    /\ \E tree \in SecurityTrees :
         fs = [p \in Paths |-> IF p = "a.py" THEN SourceOf(tree) ELSE MissingFile]
    /\ checker = NoChecker
    /\ prev = NoCall
    /\ last = NoCall
    /\ run = NoRun
    /\ heap = <<>>
    /\ colls = <<>>
    /\ ret = NoRet
    /\ rate_limiter = NoLimiter
    /\ time = 0
    /\ attempt = NoAttempt

NextSecurity == Analyze("security", "a.py")

SpecSecurity == InitSecurity /\ [][NextSecurity]_vars

-----------------------------------------------------------------------------
(* Alias resolution of SecurityPass *)

\* the (module, attribute) pairs SecurityPass is specified to match
ClaimedPairs ==
    {<<"os", "system">>, <<"os", "popen">>, <<"pickle", "loads">>,
     <<"pickle", "load">>, <<"marshal", "loads">>, <<"shelve", "open">>,
     <<"yaml", "load">>, <<"hashlib", "md5">>, <<"hashlib", "sha1">>,
     <<"hashlib", "new">>, <<"subprocess", "run">>, <<"subprocess", "call">>,
     <<"subprocess", "check_call">>, <<"subprocess", "check_output">>,
     <<"subprocess", "Popen">>}

\* the rule_id the rule tables give a module's pairs
ClaimedRule(module) ==
    CASE module = "os"         -> "SEC005"
      [] module = "yaml"       -> "SEC009"
      [] module = "hashlib"    -> "SEC008"
      [] module = "subprocess" -> "SEC004"
      [] OTHER                 -> "SEC006"

\* the argument lists with which a matched pair is reported
Triggers(module, attr, call) ==
    CASE module = "subprocess" ->
           \E k \in 1..Len(call.keywords) :
               call.keywords[k] = Keyword("shell", Constant("bool", "True"))
      [] module = "yaml" ->
           /\ Len(call.args) < 2
           /\ \A k \in 1..Len(call.keywords) : call.keywords[k].arg # "Loader"
      [] attr = "new" ->
           /\ Len(call.args) > 0
           /\ call.args[1] \in {Str("md5"), Str("MD5"), Str("sha1"), Str("SHA1")}
      [] OTHER -> TRUE

RuleSeverities(findings) ==
    [i \in 1..Len(findings) |-> <<findings[i].rule_id, findings[i].severity>>]

\* statement i of the tree is the call a.attr(...)
CallsThrough(tree, i, alias) ==
    /\ tree[i].stmt = "Call"
    /\ tree[i].func.node = "Attribute"
    /\ tree[i].func.value = Name(alias)

\* the file is `import M as a` followed by `a.attr(...)`
AliasedCall(tree) ==
    /\ Len(tree) = 2
    /\ tree[1].stmt = "Import" /\ tree[1].asname = "a"
    /\ CallsThrough(tree, 2, "a")

\* C8: the call a.attr(...) after `import M as a` gets the rule_ids and
\* severities the call M.attr(...) gets after `import M`; for a pair the pass
\* matches that is one WARNING with the pair's rule_id.
C8_AliasInvariance ==
    (Analyzed /\ AliasedCall(LastFile.tree)) =>
        LET tree == LastFile.tree
            module == tree[1].name
            attr == tree[2].func.attr
            direct == <<Import(module, None),
                        Call(Attribute(Name(module), attr), tree[2].args,
                             tree[2].keywords)>>
        IN /\ RuleSeverities(last.findings) =
                  RuleSeverities(SecurityVisitFrom(last.path, direct, 1, EmptyMap).findings)
           /\ (<<module, attr>> \in ClaimedPairs /\ Triggers(module, attr, tree[2]))
                  => RuleSeverities(last.findings) = <<<<ClaimedRule(module), "WARNING">>>>

C8_Witness ==
    /\ Analyzed /\ AliasedCall(LastFile.tree)
    /\ LastFile.tree[1].name = "subprocess"
    /\ LastFile.tree[2].func.attr = "run"
    /\ RuleSeverities(last.findings) = <<<<"SEC004", "WARNING">>>>

\* the findings located on the first i lines
FindingsUpTo(findings, i) ==
    LET OnFirstLines(f) == f.location.line <= i
    IN SelectSeq(findings, OnFirstLines)

FindingsAt(findings, i) ==
    LET OnLine(f) == f.location.line = i
    IN SelectSeq(findings, OnLine)

\* some import among the first i statements binds the name
BoundBefore(tree, i, name) == BindsName(SubSeq(tree, 1, i - 1), name)

\* the import statement that last bound the name before statement i
LastBinding(tree, i, name) ==
    LET j == CHOOSE j \in 1..(i - 1) :
                 /\ BindsName(<<tree[j]>>, name)
                 /\ ~BindsName(SubSeq(tree, j + 1, i - 1), name)
    IN tree[j]

\* C9: a call is resolved with the aliases of the imports visited before it
\* and no others: the findings of the first i statements are those of the
\* file cut after them; a.attr(...) with no earlier import binding a yields
\* no finding, also when `import M as a` follows; after `import M as a` it
\* yields the finding of the pair (M, attr).
C9_AliasesSeenSoFar ==
    Analyzed =>
        LET tree == LastFile.tree
        IN /\ \A i \in 0..Len(tree) :
                FindingsUpTo(last.findings, i) =
                    SecurityVisitFrom(last.path, SubSeq(tree, 1, i), 1, EmptyMap).findings
           /\ \A i \in 1..Len(tree) :
                (CallsThrough(tree, i, "a") /\ ~BoundBefore(tree, i, "a"))
                    => FindingsAt(last.findings, i) = <<>>
           /\ \A i \in 1..Len(tree) :
                (/\ CallsThrough(tree, i, "a") /\ BoundBefore(tree, i, "a")
                 /\ LastBinding(tree, i, "a").stmt = "Import"
                 /\ <<LastBinding(tree, i, "a").name, tree[i].func.attr>> \in ClaimedPairs
                 /\ Triggers(LastBinding(tree, i, "a").name, tree[i].func.attr, tree[i]))
                    => RuleSeverities(FindingsAt(last.findings, i)) =
                         <<<<ClaimedRule(LastBinding(tree, i, "a").name), "WARNING">>>>

C9_Witness ==
    /\ Analyzed
    /\ Len(LastFile.tree) = 3
    /\ CallsThrough(LastFile.tree, 1, "a")
    /\ LastFile.tree[2] = Import("os", "a")
    /\ LastFile.tree[3] = LastFile.tree[1]
    /\ Len(last.findings) = 1
    /\ last.findings[1].rule_id = "SEC005"
    /\ last.findings[1].location.line = 3

-----------------------------------------------------------------------------
(* run_analysis: the registered passes over a list of files *)

\* the names registered in the PASSES dictionary
PASSES == {"correctness", "security", "style"}

\* the names the exposed interface is specified to register
SpecifiedPasses == {"correctness", "security", "performance", "style"}

MaxRunFiles == 2
MaxRunPasses == 2

severity_order == <<"ERROR", "WARNING", "INFO", "HINT">>

\* findings = pass_instance.analyze(file_path); all_findings.extend(findings),
\* then the files left; an exception of analyze ends the run
RECURSIVE RunFiles(_, _, _, _)
ExtendAndGoOn(out, name, files, all_findings) ==
    IF out.exc # None
    THEN Outcome(out.exc, all_findings, out.checker)
    ELSE RunFiles(out.checker, name, files, all_findings \o out.findings)

\* for file_path in files: ...
RunFiles(chk, name, files, all_findings) ==
    IF files = <<>> THEN Outcome(None, all_findings, chk)
    ELSE ExtendAndGoOn(analyze(chk, name, Head(files)), name, Tail(files),
                       all_findings)

\* the passes left after the files of one pass
RECURSIVE RunPasses(_, _, _, _)
NextPass(out, pass_names, files) ==
    IF out.exc # None THEN out
    ELSE RunPasses(out.checker, pass_names, files, out.findings)

\* for name in pass_names: pass_cls = PASSES[name]; pass_instance = pass_cls(); ...
RunPasses(chk, pass_names, files, all_findings) ==
    IF pass_names = <<>> THEN Outcome(None, all_findings, chk)
    ELSE IF Head(pass_names) \notin PASSES
    THEN Outcome("KeyError", all_findings, chk)
    ELSE NextPass(RunFiles(chk, Head(pass_names), files, all_findings),
                  Tail(pass_names), files)

\* a variant of the filter whose threshold is exclusive
AllowedSeveritiesExclusive(min_severity) ==
    LET min_idx == IndexOf(severity_order, min_severity)
    IN {severity_order[k] : k \in 1..(min_idx - 1)}

\* the severities at or above min_severity
AllowedSeverities(min_severity) ==
    LET min_idx == IndexOf(severity_order, min_severity)
    IN {severity_order[k] : k \in 1..min_idx}

FilterAllowed(findings, min_severity) ==
    LET IsAllowed(f) == f.severity \in AllowedSeverities(min_severity)
    IN SelectSeq(findings, IsAllowed)

\* the filtered collection run_analysis returns
Filtered(out, min_severity) ==
    IF out.exc # None
    THEN Outcome(out.exc, <<>>, out.checker)
    ELSE Outcome(None, FilterAllowed(out.findings, min_severity), out.checker)

run_analysis(chk, files, pass_names, min_severity) ==
    Filtered(RunPasses(chk, pass_names, files, <<>>), min_severity)

RunResult(files, pass_names, min_severity, out) ==
    [files |-> files, pass_names |-> pass_names, min_severity |-> min_severity,
     exc |-> out.exc, findings |-> out.findings, checker |-> out.checker]

\* main() calls run_analysis once in a process
RunAnalysis(files, pass_names, min_severity) ==
    /\ run = NoRun
    /\ \E r \in {RunResult(files, pass_names, min_severity,
                           run_analysis(checker, files, pass_names, min_severity))} :
          /\ run' = [files |-> r.files, pass_names |-> r.pass_names,
                     min_severity |-> r.min_severity,
                     exc |-> r.exc, findings |-> r.findings]
          /\ checker' = r.checker
    /\ UNCHANGED <<rate_limiter, time, attempt, fs, prev, last, heap, colls, ret>>

NextRun ==
    \E files \in SeqsUpTo(Paths, MaxRunFiles),
       pass_names \in SeqsUpTo(SpecifiedPasses, MaxRunPasses),
       min_severity \in {severity_order[k] : k \in 1..Len(severity_order)} :
        RunAnalysis(files, pass_names, min_severity)

\* the second file of a run: missing, or the one statement dict()
RunSecondFiles == {MissingFile, SourceOf(<<Call(Name("dict"), <<>>, <<>>)>>)}

InitRun ==
    /\ \E a \in UnreadableFiles \cup TextFiles \cup TreeFiles, b \in RunSecondFiles :
         fs = [p \in Paths |-> IF p = "a.py" THEN a ELSE b]
    /\ checker = NoChecker
    /\ prev = NoCall
    /\ last = NoCall
    /\ run = NoRun
    /\ heap = <<>>
    /\ colls = <<>>
    /\ ret = NoRet
    /\ rate_limiter = NoLimiter
    /\ time = 0
    /\ attempt = NoAttempt

SpecRun == InitRun /\ [][NextRun]_vars

Ran == run.min_severity # None

\* the findings of PerformancePass over the files, in order
RECURSIVE PerformanceOver(_)
PerformanceOver(files) ==
    IF files = <<>> THEN <<>>
    ELSE PerformancePass_analyze(NoChecker, Head(files)).findings
             \o PerformanceOver(Tail(files))

\* C10: run_analysis accepts each of the names "correctness", "security",
\* "performance" and "style": a run over these names raises no KeyError, and
\* a run of "performance" that returns holds the findings of PerformancePass
\* over every file, filtered by min_severity.
C10_PerformanceRegistered ==
    Ran =>
        /\ run.exc # "KeyError"
        /\ (run.pass_names = <<"performance">> /\ run.exc = None)
              => run.findings =
                     FilterAllowed(PerformanceOver(run.files), run.min_severity)

-----------------------------------------------------------------------------
(* The result of run_analysis *)

\* the findings of rank at most the rank of threshold, in their order
AtLeastAsSevere(findings, threshold) ==
    LET Keeps(f) == Rank(f.severity) <= Rank(threshold)
    IN SelectSeq(findings, Keeps)

\* analyze(f1) .. analyze(fn) of one pass, concatenated
RECURSIVE OverFiles(_, _)
OverFiles(name, files) ==
    IF files = <<>> THEN <<>>
    ELSE analyze(NoChecker, name, Head(files)).findings \o OverFiles(name, Tail(files))

\* the concatenation pass by pass, then file by file
RECURSIVE OverPasses(_, _)
OverPasses(pass_names, files) ==
    IF pass_names = <<>> THEN <<>>
    ELSE OverFiles(Head(pass_names), files) \o OverPasses(Tail(pass_names), files)

\* C11: a run that returns holds exactly the findings at least as severe as
\* the threshold, in the order pass by pass, file by file, emission order;
\* the result for a more severe threshold is the part of this result that is
\* at least that severe, and threshold HINT drops nothing.
C11_FilterKeepsOrder ==
    (Ran /\ run.exc = None) =>
        /\ run.findings =
               AtLeastAsSevere(OverPasses(run.pass_names, run.files), run.min_severity)
        /\ \A k \in 1..Len(severity_order) :
               Rank(severity_order[k]) <= Rank(run.min_severity) =>
                   run_analysis(NoChecker, run.files, run.pass_names,
                                severity_order[k]).findings
                       = AtLeastAsSevere(run.findings, severity_order[k])
        /\ run.min_severity = "HINT" =>
               run.findings = OverPasses(run.pass_names, run.files)

C11_Witness ==
    /\ Ran /\ run.exc = None
    /\ run.pass_names = <<"style", "security">>
    /\ run.files = <<"b.py", "a.py">>
    /\ run.min_severity = "INFO"
    /\ Len(run.findings) = 3
    /\ run.findings[1].rule_id = "STY000"
    /\ run.findings[2].rule_id = "STY001"
    /\ run.findings[3].rule_id = "SEC000"
    /\ Len(OverPasses(run.pass_names, run.files)) = 4

-----------------------------------------------------------------------------
(* FindingCollection *)

\* findings in a list given to a collection, and in a list of a collection
MaxGiven == 2
MaxFindings == 3
\* list objects and collection objects of a process
MaxLists == 2
MaxColls == 2

\* str(path), character by character
str(path) ==
    CASE path = "a.py"   -> <<97, 46, 112, 121>>
      [] path = "b.py"   -> <<98, 46, 112, 121>>
      [] path = "a/b.py" -> <<97, 47, 98, 46, 112, 121>>

\* s < t for two strings
StrLess(s, t) ==
    \E k \in 1..Len(t) :
        /\ \A j \in 1..(k - 1) : j <= Len(s) /\ s[j] = t[j]
        /\ (k > Len(s) \/ (k <= Len(s) /\ s[k] < t[k]))

\* a variant of the key of sorted_by_severity: HINT first
SeverityKeyGreater(f, g) == Severity_lt(g.severity, f.severity)

\* key=lambda f: f.severity, compared with Severity.__lt__
SeverityKeyLess(f, g) == Severity_lt(f.severity, g.severity)

\* a variant of the key of sorted_by_location that also compares the column
LocationKeyLessWithColumn(f, g) ==
    \/ StrLess(str(f.location.file), str(g.location.file))
    \/ /\ str(f.location.file) = str(g.location.file)
       /\ \/ f.location.line < g.location.line
          \/ /\ f.location.line = g.location.line
             /\ f.location.column < g.location.column

\* key=lambda f: (str(f.location.file), f.location.line), compared as tuples
LocationKeyLess(f, g) ==
    \/ StrLess(str(f.location.file), str(g.location.file))
    \/ /\ str(f.location.file) = str(g.location.file)
       /\ f.location.line < g.location.line

KeyLess(key, f, g) ==
    IF key = "severity" THEN SeverityKeyLess(f, g) ELSE LocationKeyLess(f, g)

\* x put into a sorted list before the first element it is less than
RECURSIVE InsertByKey(_, _, _)
InsertByKey(key, list, x) ==
    IF list = <<>> THEN <<x>>
    ELSE IF KeyLess(key, x, Head(list)) THEN <<x>> \o list
    ELSE <<Head(list)>> \o InsertByKey(key, Tail(list), x)

\* sorted(list, key=...): a new list, stable
RECURSIVE sorted(_, _)
sorted(list, key) ==
    IF list = <<>> THEN <<>>
    ELSE InsertByKey(key, sorted(SubSeq(list, 1, Len(list) - 1), key), list[Len(list)])

Ret(op, coll, value, count) == [op |-> op, coll |-> coll, value |-> value, count |-> count]

\* the list of a collection
FindingsOf(c) == heap[colls[c]]

\* a variant of the constructor that stores a copy of the list it is given
NewCollectionCopying(given) ==
    /\ Len(colls) < MaxColls
    /\ Len(heap) < MaxLists
    /\ heap' = Append(heap, IF given = 0 THEN <<>> ELSE heap[given])
    /\ colls' = Append(colls, Len(heap) + 1)
    /\ ret' = Ret("__init__", Len(colls) + 1, <<>>, given)
    /\ UNCHANGED <<rate_limiter, time, attempt, fs, checker, prev, last, run>>

\* FindingCollection(findings): self._findings = findings or []
\* (given = 0 stands for None; the call is recorded with the new collection
\* and, as its count, the list it was given)
NewCollection(given) ==
    /\ Len(colls) < MaxColls
    /\ IF given = 0 \/ heap[given] = <<>>
       THEN /\ Len(heap) < MaxLists
            /\ heap' = Append(heap, <<>>)
            /\ colls' = Append(colls, Len(heap) + 1)
       ELSE /\ heap' = heap
            /\ colls' = Append(colls, given)
    /\ ret' = Ret("__init__", Len(colls) + 1, <<>>, given)
    /\ UNCHANGED <<rate_limiter, time, attempt, fs, checker, prev, last, run>>

\* add(finding): self._findings.append(finding)
Add(c, finding) ==
    /\ Len(FindingsOf(c)) < MaxFindings
    /\ heap' = [heap EXCEPT ![colls[c]] = Append(@, finding)]
    /\ ret' = Ret("add", c, <<>>, 0)
    /\ UNCHANGED <<rate_limiter, time, attempt, fs, checker, prev, last, run, colls>>

\* extend(findings): self._findings.extend(findings)
Extend(c, findings) ==
    /\ Len(FindingsOf(c)) + Len(findings) <= MaxFindings
    /\ heap' = [heap EXCEPT ![colls[c]] = @ \o findings]
    /\ ret' = Ret("extend", c, <<>>, 0)
    /\ UNCHANGED <<rate_limiter, time, attempt, fs, checker, prev, last, run, colls>>

\* return FindingCollection([f for f in self._findings if ...]): the list of
\* the comprehension when it holds a finding, a new empty list otherwise
ReturnCollection(op, c, list) ==
    /\ Len(colls) < MaxColls
    /\ Len(heap) < MaxLists
    /\ heap' = Append(heap, list)
    /\ colls' = Append(colls, Len(heap) + 1)
    /\ ret' = Ret(op, c, list, Len(colls) + 1)
    /\ UNCHANGED <<rate_limiter, time, attempt, fs, checker, prev, last, run>>

filter_by_severity(c, severity) ==
    LET Matches(f) == f.severity = severity
    IN ReturnCollection("filter_by_severity", c, SelectSeq(FindingsOf(c), Matches))

filter_by_file(c, file) ==
    LET Matches(f) == f.location.file = file
    IN ReturnCollection("filter_by_file", c, SelectSeq(FindingsOf(c), Matches))

filter_by_category(c, category) ==
    LET Matches(f) == f.category = category
    IN ReturnCollection("filter_by_category", c, SelectSeq(FindingsOf(c), Matches))

\* a call that returns a value and stores nothing
Returns(op, c, value, count) ==
    /\ ret' = Ret(op, c, value, count)
    /\ UNCHANGED <<rate_limiter, time, attempt, fs, checker, prev, last, run, heap, colls>>

\* a variant of sorted_by_severity that sorts the list of the collection
sorted_by_severity_in_place(c) ==
    /\ heap' = [heap EXCEPT ![colls[c]] = sorted(@, "severity")]
    /\ ret' = Ret("sorted_by_severity", c, sorted(FindingsOf(c), "severity"), 0)
    /\ UNCHANGED <<rate_limiter, time, attempt, fs, checker, prev, last, run, colls>>

sorted_by_severity(c) ==
    Returns("sorted_by_severity", c, sorted(FindingsOf(c), "severity"), 0)

sorted_by_location(c) ==
    Returns("sorted_by_location", c, sorted(FindingsOf(c), "location"), 0)

\* len(self.filter_by_severity(Severity.ERROR)); the collection it builds is
\* dropped on return
CountOf(c, severity) ==
    LET Matches(f) == f.severity = severity
    IN Len(SelectSeq(FindingsOf(c), Matches))

error_count(c) == Returns("error_count", c, <<>>, CountOf(c, "ERROR"))

warning_count(c) == Returns("warning_count", c, <<>>, CountOf(c, "WARNING"))

\* __len__
len(c) == Returns("__len__", c, <<>>, Len(FindingsOf(c)))

\* __iter__, run to its end
iter(c) == Returns("__iter__", c, FindingsOf(c), 0)

\* __bool__
bool(c) == Returns("__bool__", c, <<>>, IF Len(FindingsOf(c)) > 0 THEN 1 ELSE 0)

\* findings that differ in every key and findings that share one
SampleFindings ==
    {Finding(Msg("m", <<>>, <<>>), "WARNING", "a/b.py", 1, 4, "SEC005", "security", None),
     Finding(Msg("m", <<>>, <<>>), "HINT", "a.py", 2, 7, "STY004", "style", None),
     Finding(Msg("m", <<>>, <<>>), "ERROR", "a.py", 2, 0, "COR001", "correctness", None),
     Finding(Msg("m", <<>>, <<>>), "WARNING", "a.py", 1, 0, "X1", "general", None)}

CollectionPaths == {"a.py", "b.py", "a/b.py"}

Categories == {"correctness", "security", "style", "general"}

InitCollection ==
    /\ fs = [p \in Paths |-> MissingFile]
    /\ checker = NoChecker
    /\ prev = NoCall
    /\ last = NoCall
    /\ run = NoRun
    /\ \E given \in SeqsUpTo(SampleFindings, MaxGiven) : heap = <<given>>
    /\ colls = <<>>
    /\ ret = NoRet
    /\ rate_limiter = NoLimiter
    /\ time = 0
    /\ attempt = NoAttempt

NextCollection ==
    \/ \E given \in 0..Len(heap) : NewCollection(given)
    \/ \E c \in 1..Len(colls), finding \in SampleFindings : Add(c, finding)
    \/ \E c \in 1..Len(colls), findings \in SeqsUpTo(SampleFindings, MaxGiven) :
           Extend(c, findings)
    \/ \E c \in 1..Len(colls), severity \in {Severities[k] : k \in 1..Len(Severities)} :
           filter_by_severity(c, severity)
    \/ \E c \in 1..Len(colls), file \in CollectionPaths : filter_by_file(c, file)
    \/ \E c \in 1..Len(colls), category \in Categories : filter_by_category(c, category)
    \/ \E c \in 1..Len(colls) : sorted_by_severity(c)
    \/ \E c \in 1..Len(colls) : sorted_by_location(c)
    \/ \E c \in 1..Len(colls) : error_count(c)
    \/ \E c \in 1..Len(colls) : warning_count(c)
    \/ \E c \in 1..Len(colls) : len(c)
    \/ \E c \in 1..Len(colls) : iter(c)
    \/ \E c \in 1..Len(colls) : bool(c)

SpecCollection == InitCollection /\ [][NextCollection]_vars

-----------------------------------------------------------------------------
(* Sorting and filtering of a FindingCollection *)

\* how many times x occurs in list
Occurrences(list, x) == Cardinality({i \in 1..Len(list) : list[i] = x})

IsPermutation(s, t) ==
    /\ Len(s) = Len(t)
    /\ \A x \in SampleFindings : Occurrences(s, x) = Occurrences(t, x)

WithSeverity(list, severity) ==
    LET Has(f) == f.severity = severity
    IN SelectSeq(list, Has)

\* C12: sorted_by_severity returns a permutation of the collection's findings,
\* non-decreasing under ERROR < WARNING < INFO < HINT, in which the findings
\* of one severity keep their insertion order.
C12_SortedBySeverityStable ==
    ret.op = "sorted_by_severity" =>
        LET list == FindingsOf(ret.coll)
        IN /\ IsPermutation(ret.value, list)
           /\ \A i, j \in 1..Len(ret.value) :
                  i < j => Rank(ret.value[i].severity) <= Rank(ret.value[j].severity)
           /\ \A k \in 1..Len(Severities) :
                  WithSeverity(ret.value, Severities[k]) = WithSeverity(list, Severities[k])

C12_Witness ==
    /\ ret.op = "sorted_by_severity"
    /\ Len(FindingsOf(ret.coll)) = 3
    /\ FindingsOf(ret.coll)[1].severity = "WARNING"
    /\ FindingsOf(ret.coll)[2].severity = "ERROR"
    /\ FindingsOf(ret.coll)[3].severity = "WARNING"
    /\ FindingsOf(ret.coll)[1] # FindingsOf(ret.coll)[3]
    /\ ret.value = <<FindingsOf(ret.coll)[2], FindingsOf(ret.coll)[1],
                     FindingsOf(ret.coll)[3]>>

\* the calls that are specified to leave every collection as it is
ReadingCalls ==
    {"filter_by_severity", "filter_by_file", "filter_by_category",
     "sorted_by_severity", "sorted_by_location", "error_count", "warning_count",
     "__len__", "__iter__", "__bool__"}

\* C13: a filter, sort, count, len or iteration call leaves every collection
\* with the same findings in the same order; add and extend only append at
\* the end of the list of their collection.
C13_OnlyAddAndExtendChange ==
    [][/\ ret'.op \in ReadingCalls =>
            /\ \A l \in 1..Len(heap) : heap'[l] = heap[l]
            /\ \A c \in 1..Len(colls) : colls'[c] = colls[c]
       /\ ret'.op \in {"add", "extend"} =>
            /\ colls' = colls
            /\ \A l \in 1..Len(heap) :
                 IF l = colls[ret'.coll]
                 THEN /\ Len(heap'[l]) >= Len(heap[l])
                      /\ SubSeq(heap'[l], 1, Len(heap[l])) = heap[l]
                 ELSE heap'[l] = heap[l]]_vars

C13_Witness ==
    /\ ret.op = "sorted_by_location"
    /\ Len(FindingsOf(ret.coll)) = 3
    /\ ret.value # FindingsOf(ret.coll)
    /\ FindingsOf(ret.coll)[1].severity = "HINT"

\* the paths of the sample findings in the order of their strings
PathsAsStrings == <<"a.py", "a/b.py", "b.py">>

AtLocation(list, file, line) ==
    LET IsThere(f) == f.location.file = file /\ f.location.line = line
    IN SelectSeq(list, IsThere)

\* C14: sorted_by_location returns a permutation of the collection's findings
\* ordered by file path as a string, then line; findings of one file and line
\* keep their insertion order whatever their columns.
C14_SortedByLocationStable ==
    ret.op = "sorted_by_location" =>
        LET list == FindingsOf(ret.coll)
        IN /\ IsPermutation(ret.value, list)
           /\ \A i, j \in 1..Len(ret.value) :
                  i < j =>
                      LET a == ret.value[i].location
                          b == ret.value[j].location
                      IN \/ IndexOf(PathsAsStrings, a.file) < IndexOf(PathsAsStrings, b.file)
                         \/ a.file = b.file /\ a.line <= b.line
           /\ \A f \in SampleFindings :
                  AtLocation(ret.value, f.location.file, f.location.line)
                      = AtLocation(list, f.location.file, f.location.line)

C14_Witness ==
    /\ ret.op = "sorted_by_location"
    /\ Len(ret.value) = 3
    /\ ret.value[1].location.file = "a.py" /\ ret.value[1].location.column = 7
    /\ ret.value[2].location.file = "a.py" /\ ret.value[2].location.column = 0
    /\ ret.value[3].location.file = "a/b.py"
    /\ FindingsOf(ret.coll)[1] = ret.value[3]

-----------------------------------------------------------------------------
(* analyze_multiple *)

\* the pass classes that derive from BasePass
BasePasses == {"correctness", "security", "performance"}

\* for file_path in file_paths: collection.extend(list(self.analyze(file_path)))
RECURSIVE MultipleFrom(_, _, _, _)
ExtendCollection(out, pass_name, file_paths, collection) ==
    IF out.exc # None
    THEN Outcome(out.exc, <<>>, out.checker)
    ELSE MultipleFrom(out.checker, pass_name, file_paths, collection \o out.findings)

MultipleFrom(chk, pass_name, file_paths, collection) ==
    IF file_paths = <<>> THEN Outcome(None, collection, chk)
    ELSE ExtendCollection(analyze(chk, pass_name, Head(file_paths)), pass_name,
                          Tail(file_paths), collection)

\* pass_instance.analyze_multiple(file_paths): BasePass defines it, and a
\* class outside BasePass has no such attribute
analyze_multiple(chk, pass_name, file_paths) ==
    IF pass_name \in BasePasses
    THEN MultipleFrom(chk, pass_name, file_paths, <<>>)
    ELSE Outcome("AttributeError", <<>>, chk)

MultipleResult(pass_name, file_paths, out) ==
    [pass |-> pass_name, path |-> None, files |-> file_paths,
     exc |-> out.exc, findings |-> out.findings, checker |-> out.checker]

AnalyzeMultiple(pass_name, file_paths) ==
    /\ \E r \in {MultipleResult(pass_name, file_paths,
                                analyze_multiple(checker, pass_name, file_paths))} :
          /\ last' = [pass |-> r.pass, path |-> r.path, files |-> r.files,
                      exc |-> r.exc, findings |-> r.findings]
          /\ checker' = r.checker
    /\ UNCHANGED <<rate_limiter, time, attempt, fs, prev, run, heap, colls, ret>>

NextMultiple ==
    \E pass_name \in PassNames, file_paths \in SeqsUpTo(Paths, MaxRunFiles) :
        AnalyzeMultiple(pass_name, file_paths)

SpecMultiple == InitRun /\ [][NextMultiple]_vars

AnalyzedMultiple == last.pass # None /\ last.path = None

\* analyze returns for every one of the files
AllReturn(pass_name, files) ==
    \A i \in 1..Len(files) : analyze(NoChecker, pass_name, files[i]).exc = None

\* C15: for each of the four passes, analyze_multiple over files that analyze
\* returns for is the concatenation of the per-file results in input order.
C15_MultipleConcatenates ==
    (AnalyzedMultiple /\ AllReturn(last.pass, last.files)) =>
        /\ last.exc = None
        /\ last.findings = OverFiles(last.pass, last.files)

-----------------------------------------------------------------------------
(* main: the command line *)

\* Path.is_file() and Path.is_dir(); a file that cannot be read or decoded
\* is a file all the same
is_file(file) == file.status \in {"ok", "denied", "not_utf8"}
is_dir(file) == file.status = "directory"

\* the paths of the model in the order of Path comparison
PathOrder == <<"a.py", "b.py">>

\* collect_python_files(paths, recursive): every path of the model has the
\* suffix .py, and a directory of the model holds no file
collect_python_files(paths) ==
    LET files == {paths[i] : i \in {j \in 1..Len(paths) : is_file(fs[paths[j]])}}
        IsCollected(path) == path \in files
    IN SelectSeq(PathOrder, IsCollected)

\* list(PASSES.keys())
AllPasses == <<"correctness", "security", "style">>

\* findings.error_count
ErrorCount(findings) == Len(WithSeverity(findings, "ERROR"))

\* if findings.error_count > 0: return 1; return 0
ExitStatus(findings) == IF ErrorCount(findings) > 0 THEN 1 ELSE 0

MainResult(exc, status, printed, files, pass_names, out_run, chk) ==
    [exc |-> exc, status |-> status, printed |-> printed, files |-> files,
     pass_names |-> pass_names, run |-> out_run, checker |-> chk]

\* main after run_analysis: the findings as JSON in their order, or as text
\* sorted by location, then the exit status
Report(out, files, pass_names, min_severity, as_json) ==
    IF out.exc # None
    THEN MainResult(out.exc, 0, <<>>, files, pass_names,
                    [files |-> files, pass_names |-> pass_names,
                     min_severity |-> min_severity, exc |-> out.exc,
                     findings |-> <<>>],
                    out.checker)
    ELSE MainResult(None, ExitStatus(out.findings),
                    IF as_json THEN out.findings ELSE sorted(out.findings, "location"),
                    files, pass_names,
                    [files |-> files, pass_names |-> pass_names,
                     min_severity |-> min_severity, exc |-> None,
                     findings |-> out.findings],
                    out.checker)

\* main after parse_args and collect_python_files
RunAndReport(chk, files, pass_names, min_severity, as_json) ==
    IF files = <<>>
    THEN MainResult(None, 0, <<>>, files, pass_names, NoRun, chk)
    ELSE Report(run_analysis(chk, files, pass_names, min_severity),
                files, pass_names, min_severity, as_json)

main(chk, paths, passes, min_severity, as_json) ==
    RunAndReport(chk, collect_python_files(paths),
                 IF passes = <<>> THEN AllPasses ELSE passes,
                 min_severity, as_json)

\* one process: main(argv)
Main(paths, passes, min_severity, as_json, quiet) ==
    /\ ret = NoRet
    /\ run = NoRun
    /\ \E r \in {main(checker, paths, passes, min_severity, as_json)} :
          /\ ret' = [op |-> "main", coll |-> 0, value |-> r.printed,
                     count |-> r.status, exc |-> r.exc, files |-> r.files,
                     pass_names |-> r.pass_names, min_severity |-> min_severity,
                     as_json |-> as_json, quiet |-> quiet]
          /\ run' = r.run
          /\ checker' = r.checker
    /\ UNCHANGED <<rate_limiter, time, attempt, fs, prev, last, heap, colls>>

NextMain ==
    \E paths \in SeqsUpTo(Paths, MaxRunFiles) \ {<<>>},
       passes \in SeqsUpTo(PASSES, MaxRunPasses),
       min_severity \in {severity_order[k] : k \in 1..Len(severity_order)},
       as_json \in BOOLEAN, quiet \in BOOLEAN :
        Main(paths, passes, min_severity, as_json, quiet)

SpecMain == InitRun /\ [][NextMain]_vars

\* C16: main returns 1 if and only if the selected passes produce an ERROR
\* finding over the collected files, whatever the threshold, the output
\* format and the quiet flag, and returns 0 otherwise.
C16_ExitStatusFromErrors ==
    ret.op = "main" =>
        /\ ret.exc = None
        /\ ret.count = 1 <=>
               \E i \in 1..Len(ret.pass_names), j \in 1..Len(ret.files) :
                   LET out == analyze(NoChecker, ret.pass_names[i], ret.files[j])
                   IN \E k \in 1..Len(out.findings) : out.findings[k].severity = "ERROR"
        /\ ret.count \in {0, 1}

-----------------------------------------------------------------------------
(* Category and rule_id of the findings of a pass *)

\* the letters a rule_id starts with
PrefixOf(rule_id) ==
    CASE rule_id \in {"COR000", "COR001", "COR002", "COR003", "COR004", "COR005",
                      "COR006", "COR007"} -> "COR"
      [] rule_id \in {"SEC000", "SEC001", "SEC002", "SEC003", "SEC004", "SEC005",
                      "SEC006", "SEC007", "SEC008", "SEC009", "SEC010", "SEC011"} -> "SEC"
      [] rule_id \in {"PERF000", "PERF001", "PERF002", "PERF003", "PERF004",
                      "PERF005", "PERF006"} -> "PERF"
      [] rule_id \in {"STY000", "STY001", "STY002", "STY003", "STY004", "STY005",
                      "STY010", "STY011", "STY012", "STY013", "STY014", "STY015"} -> "STY"
      [] OTHER -> "?"

PassPrefix ==
    [p \in PassNames |->
       CASE p = "correctness" -> "COR" [] p = "security" -> "SEC"
         [] p = "performance" -> "PERF" [] OTHER -> "STY"]

\* C17: every finding a pass returns, its file-not-found and syntax-error
\* findings included, has the pass's own category and a rule_id with the
\* pass's prefix.
C17_OwnCategoryAndPrefix ==
    Analyzed =>
        \A i \in 1..Len(last.findings) :
            /\ last.findings[i].category = last.pass
            /\ PrefixOf(last.findings[i].rule_id) = PassPrefix[last.pass]

C17_Witness ==
    /\ Analyzed /\ last.pass = "security" /\ prev.pass = "performance"
    /\ "SEC005" \in RuleIds(last.findings)
    /\ "PERF005" \in RuleIds(prev.findings)

\* ---------------------------------------------------------------------------
\* CorrectnessPass over functions with blocks: unreachable code (COR004) and
\* the order in which the visitor emits its findings
\* ---------------------------------------------------------------------------

MaxFlat == 4
MaxBody == 3

AssertTrue == AssertStmt(Constant("bool", "True"))

SimpleStmts == {Return, Raise, Break, Continue, Pass, AssertTrue}

InnerBodies ==
    {<<Return>>, <<Return, Pass>>, <<Pass, Return>>, <<AssertTrue>>,
     <<AssertTrue, Break, Pass>>}

BlockStmts ==
    {If(b) : b \in InnerBodies} \cup {For(b) : b \in InnerBodies}
        \cup {FunctionDef(b) : b \in InnerBodies}

NestedStmts == {Return, Break, Pass, AssertTrue} \cup BlockStmts

MaxOps == 2

Operands == {NoneLiteral, Name("x"), Constant("int", "0")}

CompareOps == {"Eq", "NotEq", "Is", "IsNot", "Lt"}

\* the chains of k operators: an operand, then k operators with an operand each
CompareStmts ==
    UNION {{Compare(left, ops, comparators) :
               left \in Operands, ops \in [1..k -> CompareOps],
               comparators \in [1..k -> Operands]} : k \in 1..MaxOps}

\* modules of one function whose body is a list of simple statements or a
\* shorter list with blocks in it, and modules of statements outside a function
CorrectnessTrees ==
    {<<FunctionDef(b)>> : b \in SeqsUpTo(SimpleStmts, MaxFlat) \ {<<>>}}
        \cup {<<AsyncFunctionDef(b)>> : b \in SeqsUpTo(SimpleStmts, MaxBody - 1) \ {<<>>}}
        \cup {<<FunctionDef(b)>> : b \in SeqsUpTo(NestedStmts, MaxBody) \ {<<>>}}
        \cup (SeqsUpTo(NestedStmts, MaxBody - 1) \ {<<>>})
        \cup {<<c>> : c \in CompareStmts}

InitCorrectness ==
    /\ \E tree \in CorrectnessTrees :
         fs = [p \in Paths |-> IF p = "a.py" THEN SourceOf(tree) ELSE MissingFile]
    /\ checker = NoChecker
    /\ prev = NoCall
    /\ last = NoCall
    /\ run = NoRun
    /\ heap = <<>>
    /\ colls = <<>>
    /\ ret = NoRet
    /\ rate_limiter = NoLimiter
    /\ time = 0
    /\ attempt = NoAttempt

NextCorrectness == Analyze("correctness", "a.py")

SpecCorrectness == InitCorrectness /\ [][NextCorrectness]_vars

CorrectnessAnalyzed ==
    Analyzed /\ last.pass = "correctness" /\ last.path = "a.py" /\ last.exc = None

\* the function definitions of a list of statements and of the blocks in it:
\* the line of the def and its own list of statements
RECURSIVE DefsIn(_, _)
DefsIn(body, first_line) ==
    UNION {IF HasBody(body[i])
           THEN (IF body[i].stmt \in {"FunctionDef", "AsyncFunctionDef"}
                 THEN {[line |-> LineOfIndex(body, first_line, i), body |-> body[i].body]}
                 ELSE {})
                \cup DefsIn(body[i].body, LineOfIndex(body, first_line, i) + 1)
           ELSE {} : i \in 1..Len(body)}

\* the lines of the statements of the own list of a def
OwnLines(def) == {LineOfIndex(def.body, def.line + 1, k) : k \in 1..Len(def.body)}

\* a statement is on a line of its own and the lines follow the source, so
\* the line of a finding is the pre-order position of the node it is located at
LocatedAt(finding) == finding.location.line

\* the pre-order position of the node whose visit emits the finding: the def
\* whose own list holds the statement for COR004, the located node otherwise
EmittedAt(tree, finding) ==
    IF finding.rule_id = "COR004"
    THEN LET defs == {d \in DefsIn(tree, 1) : LocatedAt(finding) \in OwnLines(d)}
         IN IF defs = {} THEN 0 ELSE (CHOOSE d \in defs : TRUE).line
    ELSE LocatedAt(finding)

Cor004On(findings, lines) ==
    Cardinality({i \in 1..Len(findings) :
                    /\ findings[i].rule_id = "COR004"
                    /\ LocatedAt(findings[i]) \in lines})

\* C19: for the own statement list of every function definition, the scan
\* stops at the first return / raise / break / continue: when that statement
\* is not the last of the list there is exactly one COR004, a WARNING, located
\* at the statement right after it, and no other COR004 on the list whatever
\* follows; when it is the last, or the list has no terminator, there is none.
C19_OneReportPerFunctionBody ==
    CorrectnessAnalyzed =>
        \A d \in DefsIn(fs["a.py"].tree, 1) :
            LET t == FirstTerminator(d.body)
                after == LineOfIndex(d.body, d.line + 1, t + 1)
            IN IF t # 0 /\ t < Len(d.body)
               THEN /\ Cor004On(last.findings, OwnLines(d)) = 1
                    /\ Cor004On(last.findings, {after}) = 1
                    /\ \A i \in 1..Len(last.findings) :
                           (last.findings[i].rule_id = "COR004"
                              /\ LocatedAt(last.findings[i]) = after)
                               => last.findings[i].severity = "WARNING"
               ELSE Cor004On(last.findings, OwnLines(d)) = 0

\* def f(): return; pass; return; pass -- one COR004, on line 3
C19_Witness ==
    /\ CorrectnessAnalyzed
    /\ fs["a.py"].tree = <<FunctionDef(<<Return, Pass, Return, Pass>>)>>
    /\ Len(last.findings) = 1
    /\ last.findings[1].rule_id = "COR004" /\ LocatedAt(last.findings[1]) = 3

\* the blocks within function bodies: the own statement list of every function
\* definition, and the body of every if / for inside a function
RECURSIVE BlocksIn(_, _, _)
BlocksIn(body, first_line, in_function) ==
    UNION {IF HasBody(body[i])
           THEN LET is_def == body[i].stmt \in {"FunctionDef", "AsyncFunctionDef"}
                    first == LineOfIndex(body, first_line, i) + 1
                IN (IF is_def \/ in_function
                    THEN {[line |-> first - 1, body |-> body[i].body]}
                    ELSE {})
                   \cup BlocksIn(body[i].body, first, is_def \/ in_function)
           ELSE {} : i \in 1..Len(body)}

\* C20 as stated: in every block within a function body, the body of an
\* if / for included, when the first return / raise / break / continue of the
\* block is followed by another statement of the block, a COR004 is located at
\* that statement.
C20_EveryBlockInFunction ==
    CorrectnessAnalyzed =>
        \A b \in BlocksIn(fs["a.py"].tree, 1, FALSE) :
            LET t == FirstTerminator(b.body)
            IN (t # 0 /\ t < Len(b.body))
                   => Cor004On(last.findings,
                               {LineOfIndex(b.body, b.line + 1, t + 1)}) = 1

\* ---------------------------------------------------------------------------
\* StylePass over files of imports and over files of blank lines
\* ---------------------------------------------------------------------------

MaxImports == 4
MaxBlankLines == 6

\* `from . import x`: an import whose node.module is None
RelativeImport == ImportFrom(None, "x", None)

ImportStmts ==
    {Import("os", None), Import("requests", None), Import("review_agent", None),
     ImportFrom("review_agent", "x", None), RelativeImport, Pass,
     FunctionDef(<<Import("requests", None)>>)}

ImportTrees == SeqsUpTo(ImportStmts, MaxImports) \ {<<>>}

\* an empty line, a line of two blanks, and a comment
LineKinds == {Line(0, 0), Line(2, 2), Line(4, 0)}

BlankLineFiles ==
    {File("ok", lines, TRUE, SyntaxOk, <<>>) :
        lines \in SeqsUpTo(LineKinds, MaxBlankLines) \ {<<>>}}

InitStyle ==
    /\ \E a \in {SourceOf(tree) : tree \in ImportTrees} \cup BlankLineFiles :
         fs = [p \in Paths |-> IF p = "a.py" THEN a ELSE MissingFile]
    /\ checker = NoChecker
    /\ prev = NoCall
    /\ last = NoCall
    /\ run = NoRun
    /\ heap = <<>>
    /\ colls = <<>>
    /\ ret = NoRet
    /\ rate_limiter = NoLimiter
    /\ time = 0
    /\ attempt = NoAttempt

NextStyle == Analyze("style", "a.py")

SpecStyle == InitStyle /\ [][NextStyle]_vars

StyleAnalyzed ==
    Analyzed /\ last.pass = "style" /\ last.path = "a.py" /\ last.exc = None

IsImport(node) == node.stmt \in {"Import", "ImportFrom"}

\* the group index of an import, stdlib = 0, third_party = 1, local = 2; an
\* import relative to the package of the file is a local one
GroupIndex(node) ==
    IF node.stmt = "ImportFrom" /\ node.module = None THEN 2
    ELSE IndexOf(expected_order,
                 _classify_import(IF node.stmt = "Import" THEN node.name
                                  ELSE node.module)) - 1

\* the largest group index of the imports among stmts[1..i-1], 0 if none
MaxGroupBefore(stmts, i) ==
    LET before == {GroupIndex(stmts[j]) : j \in {k \in 1..(i - 1) : IsImport(stmts[k])}}
    IN IF before = {} THEN 0 ELSE CHOOSE g \in before : \A h \in before : h <= g

\* the lines that have a finding of the rule
LinesWith(findings, rule_id) ==
    {findings[i].location.line : i \in {k \in 1..Len(findings) :
                                           findings[k].rule_id = rule_id}}

CountOfRule(findings, rule_id) ==
    Cardinality({i \in 1..Len(findings) : findings[i].rule_id = rule_id})

\* C21 as stated: with every import of the file taken in line order, STY005 is
\* emitted once for exactly the imports whose group index is strictly less
\* than the largest group index of the imports before them.
C21_RunningMaximumOverEveryImport ==
    StyleAnalyzed =>
        LET stmts == Walk(fs["a.py"].tree)
            late == {i \in 1..Len(stmts) :
                        IsImport(stmts[i]) /\ GroupIndex(stmts[i]) < MaxGroupBefore(stmts, i)}
        IN /\ LinesWith(last.findings, "STY005") = late
           /\ CountOfRule(last.findings, "STY005") = Cardinality(late)

\* the same rule over the imports that name a module, which are the ones
\* _check_imports records
NamesModule(node) ==
    node.stmt = "Import" \/ (node.stmt = "ImportFrom" /\ node.module # None)

RunningMaximumOverNamedImports ==
    StyleAnalyzed =>
        LET stmts == Walk(fs["a.py"].tree)
            named == {i \in 1..Len(stmts) : NamesModule(stmts[i])}
            late == {i \in named :
                        \E j \in named : j < i /\ GroupIndex(stmts[i]) < GroupIndex(stmts[j])}
        IN /\ LinesWith(last.findings, "STY005") = late
           /\ CountOfRule(last.findings, "STY005") = Cardinality(late)

IsBlank(line) == line.ws = line.chars

\* line i is the 3rd or a later line of a run of consecutive blank lines
ThirdOrLaterBlank(lines, i) ==
    i >= 3 /\ IsBlank(lines[i]) /\ IsBlank(lines[i - 1]) /\ IsBlank(lines[i - 2])

\* the runs of consecutive blank lines that no blank line precedes or follows
BlankRuns(lines) ==
    {r \in (1..Len(lines)) \X (1..Len(lines)) :
        /\ r[1] <= r[2]
        /\ \A i \in r[1]..r[2] : IsBlank(lines[i])
        /\ (r[1] > 1 => ~IsBlank(lines[r[1] - 1]))
        /\ (r[2] < Len(lines) => ~IsBlank(lines[r[2] + 1]))}

\* C22: a STY003 HINT is emitted once on exactly each line that is the 3rd or
\* a later one of a run of consecutive blank lines (empty or whitespace only):
\* a run of n blank lines has max(0, n - 2) of them, a non-blank line ends the
\* run, and two consecutive blank lines have none.
C22_ThirdBlankLineOnwards ==
    StyleAnalyzed =>
        LET lines == fs["a.py"].lines
            third == {i \in 1..Len(lines) : ThirdOrLaterBlank(lines, i)}
        IN /\ LinesWith(last.findings, "STY003") = third
           /\ CountOfRule(last.findings, "STY003") = Cardinality(third)
           /\ \A i \in 1..Len(last.findings) :
                  last.findings[i].rule_id = "STY003"
                      => last.findings[i].severity = "HINT"
           /\ \A r \in BlankRuns(lines) :
                  LET n == r[2] - r[1] + 1
                  IN Cardinality(LinesWith(last.findings, "STY003") \cap (r[1]..r[2]))
                       = IF n > 2 THEN n - 2 ELSE 0

\* two blank lines, a comment, three blank lines: one STY003, on line 6
C22_Witness ==
    /\ StyleAnalyzed
    /\ Len(fs["a.py"].lines) = 6
    /\ \A i \in {1, 2, 4, 5, 6} : IsBlank(fs["a.py"].lines[i])
    /\ ~IsBlank(fs["a.py"].lines[3])
    /\ LinesWith(last.findings, "STY003") = {6}

\* ---------------------------------------------------------------------------
\* PerformancePass over subscripts of calls and over nested loops
\* ---------------------------------------------------------------------------

MaxIndex == 2
MaxSubscripts == 2
MaxLoopBody == 2

IntLiterals == {IntConstant(n) : n \in (0 - MaxIndex)..MaxIndex}

IndexExprs ==
    IntLiterals
        \cup {UnaryOp("USub", c) : c \in IntLiterals}
        \cup {Constant("bool", "False"), Constant("bool", "True"),
              UnaryOp("USub", Constant("bool", "True")),
              UnaryOp("UAdd", IntConstant(0)), UnaryOp("Invert", IntConstant(0)),
              Str("0"), Constant("float", "0.0"), Name("i"),
              UnaryOp("USub", Name("i"))}

SortedCall == CallExpr(Name("sorted"), <<Name("xs")>>)

SubscriptStmts ==
    {Subscript(SortedCall, slice) : slice \in IndexExprs}
        \cup {Subscript(CallExpr(Name("reversed"), <<Name("xs")>>), IntConstant(0)),
              Subscript(CallExpr(Attribute(Name("builtins"), "sorted"), <<Name("xs")>>),
                        IntConstant(0)),
              Subscript(CallExpr(Name("list"), <<>>), IntConstant(0)),
              Subscript(Name("xs"), IntConstant(0))}

\* s += "x", s += f"{x}", and augmented assignments that build no string
ConcatStmts ==
    {AugAssign(Name("s"), "Add", Str("x")), AugAssign(Name("s"), "Add", JoinedStr)}

LoopLeaves ==
    ConcatStmts
        \cup {AugAssign(Name("s"), "Add", IntConstant(1)),
              AugAssign(Name("s"), "Mult", Str("x")),
              AugAssign(Attribute(Name("self"), "s"), "Add", Str("x")),
              Pass}

InnerBlocks ==
    UNION {{For(b), If(b), FunctionDef(b)} :
              b \in SeqsUpTo(LoopLeaves, MaxLoopBody) \ {<<>>}}

OneLoop == LoopLeaves \cup InnerBlocks

TwoLoops ==
    {For(<<s>>) : s \in OneLoop} \cup {If(<<s>>) : s \in OneLoop}
        \cup {For(<<s, t>>) : s \in InnerBlocks, t \in ConcatStmts}

ThreeLoops == {For(<<s>>) : s \in TwoLoops}

PerformanceTrees ==
    (SeqsUpTo(SubscriptStmts, MaxSubscripts) \ {<<>>})
        \cup {<<s>> : s \in OneLoop \cup TwoLoops \cup ThreeLoops}

InitPerformance ==
    /\ \E tree \in PerformanceTrees :
         fs = [p \in Paths |-> IF p = "a.py" THEN SourceOf(tree) ELSE MissingFile]
    /\ checker = NoChecker
    /\ prev = NoCall
    /\ last = NoCall
    /\ run = NoRun
    /\ heap = <<>>
    /\ colls = <<>>
    /\ ret = NoRet
    /\ rate_limiter = NoLimiter
    /\ time = 0
    /\ attempt = NoAttempt

NextPerformance == Analyze("performance", "a.py")

SpecPerformance == InitPerformance /\ [][NextPerformance]_vars

PerformanceAnalyzed ==
    Analyzed /\ last.pass = "performance" /\ last.path = "a.py" /\ last.exc = None

\* the findings of a rule located on a line, in the order of emission
OnLine(findings, rule_id, line) ==
    SelectSeq(findings, LAMBDA f : f.rule_id = rule_id /\ f.location.line = line)

IsSortedSubscript(stmt) ==
    /\ stmt.stmt = "Subscript"
    /\ stmt.value.node = "Call"
    /\ stmt.value.func.node = "Name" /\ stmt.value.func.id = "sorted"

\* an integer literal: True and False are the integers 1 and 0 of the language
IsIntegerLiteral(e) == e.node = "Constant" /\ e.type \in {"int", "bool"}

\* the index is an integer literal or unary minus applied to one
WrittenAsInteger(e) ==
    IsIntegerLiteral(e) \/ (e.node = "UnaryOp" /\ e.op = "USub" /\ IsIntegerLiteral(e.operand))

\* the integer such an index denotes
Denotes(e) == IF e.node = "UnaryOp" THEN 0 - IntValue(e.operand) ELSE IntValue(e)

\* C23: a subscript of a sorted(...) call whose index is an integer literal or
\* unary minus applied to an integer literal gets exactly one PERF006 WARNING
\* when the index is 0 (the suggestion names min) or -1 (it names max) and
\* none for any other integer; an index that is not such an integer gets none.
C23_IndexZeroOrMinusOne ==
    PerformanceAnalyzed =>
        \A l \in 1..Len(fs["a.py"].tree) :
            LET stmt == fs["a.py"].tree[l]
                found == OnLine(last.findings, "PERF006", l)
            IN IsSortedSubscript(stmt) =>
                 IF WrittenAsInteger(stmt.slice) /\ Denotes(stmt.slice) \in {0, -1}
                 THEN /\ Len(found) = 1
                      /\ found[1].severity = "WARNING"
                      /\ found[1].message.strs
                           = IF Denotes(stmt.slice) = 0 THEN <<"min">> ELSE <<"max">>
                 ELSE found = <<>>

\* sorted(xs)[-1] written with unary minus, then sorted(xs)[1]
C23_Witness ==
    /\ PerformanceAnalyzed
    /\ fs["a.py"].tree = <<Subscript(SortedCall, UnaryOp("USub", IntConstant(1))),
                           Subscript(SortedCall, IntConstant(1))>>
    /\ Len(last.findings) = 1
    /\ last.findings[1].rule_id = "PERF006"
    /\ last.findings[1].message.strs = <<"max">>

\* every statement of a list and of the blocks in it, with its line and the
\* number of for-loops it is nested in
RECURSIVE Enclosed(_, _, _)
Enclosed(body, first_line, loops) ==
    UNION {{[node |-> body[i], line |-> LineOfIndex(body, first_line, i), loops |-> loops]}
             \cup (IF HasBody(body[i])
                   THEN Enclosed(body[i].body, LineOfIndex(body, first_line, i) + 1,
                                 IF body[i].stmt = "For" THEN loops + 1 ELSE loops)
                   ELSE {})
           : i \in 1..Len(body)}

\* C27: an augmented assignment `name += <string literal or f-string>` nested
\* in k for-loops gets exactly k PERF002 findings, all WARNINGs at its own
\* location, one from each enclosing loop; any other augmented assignment
\* gets none.
C27_OncePerEnclosingLoop ==
    PerformanceAnalyzed =>
        \A e \in Enclosed(fs["a.py"].tree, 1, 0) :
            e.node.stmt = "AugAssign" =>
                LET found == OnLine(last.findings, "PERF002", e.line)
                IN /\ Len(found) = IF e.node \in ConcatStmts THEN e.loops ELSE 0
                   /\ \A k \in 1..Len(found) :
                          /\ found[k].severity = "WARNING"
                          /\ found[k].location = [file |-> "a.py", line |-> e.line, column |-> 0]

\* for: for: for: s += "x" -- three PERF002 on line 4
C27_Witness ==
    /\ PerformanceAnalyzed
    /\ fs["a.py"].tree
         = <<For(<<For(<<For(<<AugAssign(Name("s"), "Add", Str("x"))>>)>>)>>)>>
    /\ Len(last.findings) = 3
    /\ \A k \in 1..3 : /\ last.findings[k].rule_id = "PERF002"
                       /\ last.findings[k].location.line = 4

\* ---------------------------------------------------------------------------
\* SecurityPass: yaml.load, hardcoded secrets and the names of receivers
\* ---------------------------------------------------------------------------

SecurityAnalyzed ==
    Analyzed /\ last.pass = "security" /\ last.path = "a.py" /\ last.exc = None

\* statement i calls name.attr(...), and name stands for the module: the last
\* import before the statement that bound the name is an import of the
\* module, or no import bound it and it is the name of the module
CallOf(tree, i, module, attr) ==
    /\ tree[i].stmt = "Call"
    /\ tree[i].func.node = "Attribute" /\ tree[i].func.value.node = "Name"
    /\ tree[i].func.attr = attr
    /\ IF BoundBefore(tree, i, tree[i].func.value.id)
       THEN /\ LastBinding(tree, i, tree[i].func.value.id).stmt = "Import"
            /\ LastBinding(tree, i, tree[i].func.value.id).name = module
       ELSE tree[i].func.value.id = module

HasLoaderKeyword(call) == \E k \in 1..Len(call.keywords) : call.keywords[k].arg = "Loader"

\* C24: a call resolved to yaml.load gets exactly one SEC009 WARNING when it
\* has no keyword named Loader and fewer than two positional arguments, and no
\* SEC009 when it has a Loader keyword or a second positional argument,
\* whatever the value of either.
C24_LoaderOrSecondArgument ==
    SecurityAnalyzed =>
        \A i \in 1..Len(fs["a.py"].tree) :
            CallOf(fs["a.py"].tree, i, "yaml", "load") =>
                LET found == OnLine(last.findings, "SEC009", i)
                IN IF ~HasLoaderKeyword(fs["a.py"].tree[i]) /\ Len(fs["a.py"].tree[i].args) < 2
                   THEN Len(found) = 1 /\ found[1].severity = "WARNING"
                   ELSE found = <<>>

\* import yaml as a; a.load(x, None) -- no finding
C24_Witness ==
    /\ SecurityAnalyzed
    /\ Len(fs["a.py"].tree) = 2
    /\ fs["a.py"].tree[1] = Import("yaml", "a")
    /\ CallOf(fs["a.py"].tree, 2, "yaml", "load")
    /\ fs["a.py"].tree[2].args = <<Name("x"), Constant("NoneType", "None")>>
    /\ fs["a.py"].tree[2].keywords = <<>>
    /\ last.findings = <<>>

MaxTargets == 2

SecretNames ==
    {<<"p", "a", "s", "s", "w", "o", "r", "d">>,
     <<"P", "A", "S", "S", "W", "O", "R", "D">>,
     <<"d", "b", "_", "p", "a", "s", "s", "w", "d">>,
     <<"S", "e", "c", "r", "e", "t">>,
     <<"m", "y", "_", "a", "p", "i", "_", "k", "e", "y">>,
     <<"A", "p", "i", "K", "e", "y">>,
     <<"T", "o", "k", "e", "n", "2">>,
     <<"a", "u", "t", "h", "o", "r">>,
     <<"c", "r", "e", "d", "e", "n", "t", "i", "a", "l", "s">>,
     <<"P", "R", "I", "V", "A", "T", "E", "_", "K", "E", "Y">>,
     <<"p", "r", "i", "v", "a", "t", "e", "k", "e", "y">>,
     <<"p", "a", "s", "s", "_", "w", "o", "r", "d">>,
     <<"t", "o", "k", "n">>,
     <<"x">>}

SecretTargets ==
    {Identifier(chars) : chars \in SecretNames}
        \cup {Attribute(Name("self"), "password"), [node |-> "Tuple"]}

SecretValues ==
    {Str("hunter2"), Str(" "), Str(""), Constant("bytes", "hunter2"),
     Constant("int", "1"), Constant("NoneType", "None"), JoinedStr, Name("value"),
     CallExpr(Name("input"), <<>>), CallExpr(Name("eval"), <<Str("x")>>)}

SecretStmts ==
    {Assign(targets, value) :
        targets \in SeqsUpTo(SecretTargets, MaxTargets) \ {<<>>}, value \in SecretValues}
        \cup {AnnAssign(target, value) :
                 target \in SecretTargets, value \in SecretValues \cup {NoValue}}
        \cup {AugAssign(target, "Add", Str("hunter2")) :
                 target \in {Identifier(chars) : chars \in SecretNames}}

InitSecrets ==
    /\ \E stmt \in SecretStmts :
         fs = [p \in Paths |-> IF p = "a.py" THEN SourceOf(<<stmt>>) ELSE MissingFile]
    /\ checker = NoChecker
    /\ prev = NoCall
    /\ last = NoCall
    /\ run = NoRun
    /\ heap = <<>>
    /\ colls = <<>>
    /\ ret = NoRet
    /\ rate_limiter = NoLimiter
    /\ time = 0
    /\ attempt = NoAttempt

NextSecrets == Analyze("security", "a.py")

SpecSecrets == InitSecrets /\ [][NextSecrets]_vars

\* the lower-case letter of an upper-case one, any other character itself
CaseFolded(c) ==
    LET at == {k \in 1..26 : UpperCase[k] = c}
    IN IF at = {} THEN c ELSE LowerCase[CHOOSE k \in at : TRUE]

\* the text of the name in lower case
LowerText(chars) == [k \in 1..Len(chars) |-> CaseFolded(chars[k])]

\* the name contains one of the words, whatever the case of its letters
LooksSecret(chars) ==
    \E word \in _SECRET_NAME_PATTERN :
        \E i \in 1..Len(chars) :
            /\ i + Len(word) - 1 <= Len(chars)
            /\ SubSeq(LowerText(chars), i, i + Len(word) - 1) = word

NonEmptyStringLiteral(value) ==
    value.node = "Constant" /\ value.type = "str" /\ value.value # ""

\* the simple names a statement binds a value to, none for other statements
BoundNames(stmt) ==
    CASE stmt.stmt = "Assign" ->
           SelectSeq(stmt.targets, LAMBDA t : t.node = "Name")
      [] stmt.stmt = "AnnAssign" ->
           IF stmt.target.node = "Name" /\ stmt.value # NoValue THEN <<stmt.target>> ELSE <<>>
      [] OTHER -> <<>>

\* C25: SEC003 fires exactly when a plain or annotated assignment binds a
\* string literal of length >= 1 to a simple name that contains, whatever the
\* case, one of password, passwd, secret, api_key, apikey, token, auth,
\* credential, private_key: one WARNING for each such name of the statement,
\* and none for an empty string, a constant that is no string, a value that
\* is no literal, or a name with none of the words in it.
C25_HardcodedSecret ==
    SecurityAnalyzed =>
        LET stmt == fs["a.py"].tree[1]
            found == OnLine(last.findings, "SEC003", 1)
            secret == SelectSeq(BoundNames(stmt), LAMBDA t : LooksSecret(t.chars))
        IN /\ Len(found) = IF stmt.stmt \in {"Assign", "AnnAssign"}
                                /\ NonEmptyStringLiteral(stmt.value)
                           THEN Len(secret) ELSE 0
           /\ \A k \in 1..Len(found) :
                  /\ found[k].severity = "WARNING"
                  /\ found[k].message.strs = <<secret[k].id>>

\* ApiKey: str = " " -- one SEC003
C25_Witness ==
    /\ SecurityAnalyzed
    /\ fs["a.py"].tree = <<AnnAssign(Identifier(<<"A", "p", "i", "K", "e", "y">>), Str(" "))>>
    /\ Len(last.findings) = 1
    /\ last.findings[1].rule_id = "SEC003"
    /\ last.findings[1].message.strs = <<"ApiKey">>

\* the operands of a chain: operator position k stands between k and k + 1
OperandsOf(node) == <<node.left>> \o node.comparators

\* the positions of a chain whose operator is == or != and which have the
\* None literal on the left or on the right
NonePositions(node) ==
    {k \in 1..Len(node.ops) :
        /\ node.ops[k] \in {"Eq", "NotEq"}
        /\ (OperandsOf(node)[k] = NoneLiteral \/ OperandsOf(node)[k + 1] = NoneLiteral)}

\* C26: a comparison chain gets one COR002 WARNING for each operator position
\* whose operator is == or != and whose left or right operand is the None
\* literal: one also when None is on both sides, none for is / is not.
C26_OncePerNonePosition ==
    (CorrectnessAnalyzed /\ fs["a.py"].tree[1].stmt = "Compare") =>
        LET node == fs["a.py"].tree[1]
            found == OnLine(last.findings, "COR002", 1)
        IN /\ Len(found) = Cardinality(NonePositions(node))
           /\ \A k \in 1..Len(found) : found[k].severity = "WARNING"
           /\ Len(last.findings) = Len(found)

\* None == None != x is None -- two COR002
C26_Witness ==
    /\ CorrectnessAnalyzed
    /\ fs["a.py"].tree = <<Compare(NoneLiteral, <<"Eq", "NotEq">>, <<NoneLiteral, Name("x")>>)>>
    /\ Len(last.findings) = 2
    /\ RuleIds(last.findings) = {"COR002"}

\* ---------------------------------------------------------------------------
\* SecurityPass: imports inside function bodies and the names they bind
\* ---------------------------------------------------------------------------

MaxScopeStmts == 3

OsSystem(name) == Call(Attribute(Name(name), "system"), <<Str("x")>>, <<>>)

ScopeLeaves ==
    {Import("foo", "os"), Import("os", None), Import("os", "a"),
     ImportFrom("x", "os", None), OsSystem("os"), OsSystem("a")}

ScopeStmts == ScopeLeaves \cup {FunctionDef(<<l>>) : l \in ScopeLeaves}

ScopeTrees == SeqsUpTo(ScopeStmts, MaxScopeStmts)

InitScopes ==
    /\ \E tree \in ScopeTrees :
         fs = [p \in Paths |-> IF p = "a.py" THEN SourceOf(tree) ELSE MissingFile]
    /\ checker = NoChecker
    /\ prev = NoCall
    /\ last = NoCall
    /\ run = NoRun
    /\ heap = <<>>
    /\ colls = <<>>
    /\ ret = NoRet
    /\ rate_limiter = NoLimiter
    /\ time = 0
    /\ attempt = NoAttempt

NextScopes == Analyze("security", "a.py")

SpecScopes == InitScopes /\ [][NextScopes]_vars

\* C28: with the statements of the file taken in the order of the visit,
\* functions entered as they are met, a call name.system(...) gets exactly one
\* SEC005 when the last import before it that bound the name is an import of
\* os, or when no import before it bound the name and the name is os; every
\* other such call gets no finding. An import inside a function body counts
\* for the calls after the function like one outside it.
C28_ReceiverResolvedByLastImport ==
    SecurityAnalyzed =>
        LET stmts == Walk(fs["a.py"].tree)
        IN \A i \in 1..Len(stmts) :
             stmts[i].stmt = "Call" =>
                 IF CallOf(stmts, i, "os", "system")
                 THEN /\ Len(FindingsAt(last.findings, i)) = 1
                      /\ FindingsAt(last.findings, i)[1].rule_id = "SEC005"
                 ELSE FindingsAt(last.findings, i) = <<>>

\* def f(): import foo as os, then os.system("x") after the function: no
\* finding, the binding made inside the function still holds
C28_Witness ==
    /\ SecurityAnalyzed
    /\ fs["a.py"].tree = <<FunctionDef(<<Import("foo", "os")>>), OsSystem("os")>>
    /\ last.findings = <<>>

\* os.system("x") in a file with no import: SEC005
C28_WitnessUnbound ==
    /\ SecurityAnalyzed
    /\ fs["a.py"].tree = <<OsSystem("os")>>
    /\ RuleIds(last.findings) = {"SEC005"}

\* ---------------------------------------------------------------------------
\* FindingCollection: which list a collection holds
\* ---------------------------------------------------------------------------

Filters == {"filter_by_severity", "filter_by_file", "filter_by_category"}

\* the list is held by no collection and is not one that existed before
FreshList(l) == l = Len(heap) + 1 /\ \A d \in 1..Len(colls) : colls[d] # l

\* C29: a collection constructed from a non-empty list holds that very list,
\* and no list is created; constructed from None or from an empty list it
\* holds a new empty list of its own. add and extend change the list of the
\* collection, so every collection that holds the same list shows the change,
\* the list given by the caller included, and no other list changes. The
\* collection a filter returns holds a new list, so no later add to it
\* changes the list of its source.
C29_ListOfACollection ==
    [][/\ (ret'.op = "__init__" /\ Len(colls') = Len(colls) + 1) =>
            IF ret'.count # 0 /\ heap[ret'.count] # <<>>
            THEN colls'[ret'.coll] = ret'.count /\ heap' = heap
            ELSE /\ FreshList(colls'[ret'.coll])
                 /\ heap' = Append(heap, <<>>)
       /\ (ret'.op \in {"add", "extend"} /\ heap' # heap) =>
            /\ colls' = colls
            /\ \A l \in 1..Len(heap) :
                 IF l = colls[ret'.coll]
                 THEN Len(heap'[l]) > Len(heap[l])
                      /\ SubSeq(heap'[l], 1, Len(heap[l])) = heap[l]
                 ELSE heap'[l] = heap[l]
            /\ \A d \in 1..Len(colls) :
                 colls[d] = colls[ret'.coll] => heap'[colls'[d]] = heap'[colls'[ret'.coll]]
       /\ (ret'.op \in Filters /\ Len(colls') = Len(colls) + 1) =>
            /\ FreshList(colls'[ret'.count])
            /\ colls'[ret'.count] # colls[ret'.coll]
            /\ SubSeq(heap', 1, Len(heap)) = heap
      ]_vars

\* two collections built from the caller's list of two findings, and an add
\* to the second one: the list of the caller and the first collection hold
\* the third finding too
C29_Witness ==
    /\ colls = <<1, 1>>
    /\ Len(heap) = 1
    /\ ret.op = "add" /\ ret.coll = 2
    /\ Len(heap[1]) = 3
    /\ FindingsOf(1) = heap[1]

\* a collection built from the caller's empty list holds a list of its own
C29_WitnessEmpty ==
    /\ heap[1] = <<>>
    /\ colls = <<2>>
    /\ ret.op = "add"
    /\ Len(heap[2]) = 1

-----------------------------------------------------------------------------
(* RateLimiter of the scanner agent: a sliding window over time.time()      *)
(* values.  The clock of the model counts whole seconds and never goes     *)
(* back.                                                                   *)

MaxTime == 6
MaxCalls == 2
MaxWindow == 3

\* RateLimiter(max_calls, time_window)
RateLimiter(max_calls, time_window) ==
    [max_calls |-> max_calls, time_window |-> time_window, _timestamps |-> <<>>]

\* a variant of the loop that keeps a timestamp that is exactly time_window old
RECURSIVE popleft_older(_, _, _)
popleft_older(timestamps, current_time, time_window) ==
    IF timestamps # <<>> /\ current_time - Head(timestamps) > time_window
    THEN popleft_older(Tail(timestamps), current_time, time_window)
    ELSE timestamps

\* while self._timestamps and current_time - self._timestamps[0] >= self.time_window:
\*     self._timestamps.popleft()
RECURSIVE popleft_expired(_, _, _)
popleft_expired(timestamps, current_time, time_window) ==
    IF timestamps # <<>> /\ current_time - Head(timestamps) >= time_window
    THEN popleft_expired(Tail(timestamps), current_time, time_window)
    ELSE timestamps

Attempt(op, exc, value) ==
    [op |-> op, exc |-> exc, value |-> value, at |-> time,
     before |-> rate_limiter._timestamps]

\* the deque after check_and_increment at current_time, and what it raises
CheckAndIncrement(timestamps, current_time) ==
    LET kept == popleft_expired(timestamps, current_time, rate_limiter.time_window)
    IN IF Len(kept) >= rate_limiter.max_calls
       THEN [_timestamps |-> kept, exc |-> "RateLimitError"]
       ELSE [_timestamps |-> Append(kept, current_time), exc |-> None]

check_and_increment ==
    /\ rate_limiter' = [rate_limiter EXCEPT !._timestamps =
                            CheckAndIncrement(@, time)._timestamps]
    /\ attempt' = Attempt("check_and_increment",
                          CheckAndIncrement(rate_limiter._timestamps, time).exc, 0)
    /\ UNCHANGED <<fs, checker, prev, last, run, heap, colls, ret, time>>

get_current_usage ==
    /\ rate_limiter' = [rate_limiter EXCEPT !._timestamps =
                            popleft_expired(@, time, rate_limiter.time_window)]
    /\ attempt' = Attempt("get_current_usage", None,
                          Len(popleft_expired(rate_limiter._timestamps, time,
                                              rate_limiter.time_window)))
    /\ UNCHANGED <<fs, checker, prev, last, run, heap, colls, ret, time>>

reset ==
    /\ rate_limiter' = [rate_limiter EXCEPT !._timestamps = <<>>]
    /\ attempt' = Attempt("reset", None, 0)
    /\ UNCHANGED <<fs, checker, prev, last, run, heap, colls, ret, time>>

\* _invoke_llm_with_rate_limiting up to the call of the LLM:
\* check_and_increment, whose exception ends the call, then
\* get_current_usage, which reads the clock again
_invoke_llm_with_rate_limiting(later) ==
    LET checked == CheckAndIncrement(rate_limiter._timestamps, time)
    IN /\ later >= time /\ later <= MaxTime
       /\ IF checked.exc # None
          THEN /\ rate_limiter' = [rate_limiter EXCEPT !._timestamps = checked._timestamps]
               /\ attempt' = Attempt("_invoke_llm_with_rate_limiting", checked.exc, 0)
               /\ time' = time
          ELSE /\ rate_limiter' = [rate_limiter EXCEPT !._timestamps =
                       popleft_expired(checked._timestamps, later, rate_limiter.time_window)]
               /\ attempt' = Attempt("_invoke_llm_with_rate_limiting", None,
                       Len(popleft_expired(checked._timestamps, later,
                                           rate_limiter.time_window)))
               /\ time' = later
       /\ UNCHANGED <<fs, checker, prev, last, run, heap, colls, ret>>

\* a second passes
Tick ==
    /\ time < MaxTime
    /\ time' = time + 1
    /\ UNCHANGED <<fs, checker, prev, last, run, heap, colls, ret, rate_limiter, attempt>>

InitLimiter ==
    /\ fs = [p \in Paths |-> MissingFile]
    /\ checker = NoChecker
    /\ prev = NoCall
    /\ last = NoCall
    /\ run = NoRun
    /\ heap = <<>>
    /\ colls = <<>>
    /\ ret = NoRet
    /\ \E max_calls \in 0..MaxCalls, time_window \in 0..MaxWindow :
           rate_limiter = RateLimiter(max_calls, time_window)
    /\ time = 0
    /\ attempt = NoAttempt

NextLimiter ==
    \/ check_and_increment
    \/ get_current_usage
    \/ reset
    \/ \E later \in {time, time + 1} : _invoke_llm_with_rate_limiting(later)
    \/ Tick

SpecLimiter == InitLimiter /\ [][NextLimiter]_vars

\* the recorded timestamps that are younger than time_window at time t
Younger(timestamps, t) ==
    LET IsYounger(x) == t - x < rate_limiter.time_window
    IN SelectSeq(timestamps, IsYounger)

\* a call at time t is accepted when fewer than max_calls recorded
\* timestamps are younger than time_window
Accepted(timestamps, t) == Len(Younger(timestamps, t)) < rate_limiter.max_calls

Checked == attempt.op = "check_and_increment"

\* C30: check_and_increment appends the time of the call to the timestamps
\* that are younger than time_window when fewer than max_calls of them are,
\* and otherwise raises RateLimitError and leaves only those timestamps, a
\* timestamp exactly time_window old being dropped in both cases; the value
\* of get_current_usage is the number of younger timestamps and, like the
\* number of recorded timestamps, never exceeds max_calls; and after a
\* rejected call every later call is accepted exactly when it would have
\* been accepted had the rejected call not been made.
C30_SlidingWindow ==
    /\ Checked =>
         IF Accepted(attempt.before, attempt.at)
         THEN /\ attempt.exc = None
              /\ rate_limiter._timestamps =
                     Append(Younger(attempt.before, attempt.at), attempt.at)
         ELSE /\ attempt.exc = "RateLimitError"
              /\ rate_limiter._timestamps = Younger(attempt.before, attempt.at)
              /\ \A t \in attempt.at..MaxTime :
                     Accepted(rate_limiter._timestamps, t) <=> Accepted(attempt.before, t)
    /\ attempt.op = "get_current_usage" =>
         /\ attempt.value = Len(Younger(attempt.before, attempt.at))
         /\ attempt.value <= rate_limiter.max_calls
    /\ (attempt.op = "_invoke_llm_with_rate_limiting" /\ attempt.exc = None) =>
         attempt.value <= rate_limiter.max_calls
    /\ Len(rate_limiter._timestamps) <= rate_limiter.max_calls
    /\ Len(Younger(rate_limiter._timestamps, time)) <= rate_limiter.max_calls

\* two calls per three seconds: calls at 0 and 1 accepted, a call at 2
\* rejected, and a call at 3 accepted, the timestamp 0 being exactly three
\* seconds old
C30_Witness ==
    /\ rate_limiter.max_calls = 2 /\ rate_limiter.time_window = 3
    /\ Checked /\ attempt.exc = None
    /\ attempt.at = 3 /\ attempt.before = <<0, 1>>
    /\ rate_limiter._timestamps = <<1, 3>>

\* a rejected call
C30_WitnessRejected ==
    /\ rate_limiter.max_calls = 2 /\ rate_limiter.time_window = 3
    /\ Checked /\ attempt.exc = "RateLimitError"
    /\ attempt.at = 2 /\ attempt.before = <<0, 1>>
    /\ rate_limiter._timestamps = <<0, 1>>

====
